---------------------------- MODULE Spec2Model ----------------------------
(***************************************************************************)
(* State-machine model of the CAPEX planning application (capex_app.py):   *)
(* the SQLite tables it keeps, and the form handlers, the spreadsheet      *)
(* import and the weighted recompute that write them.                      *)
(*                                                                         *)
(* Text values (names typed by a user or read from a spreadsheet) are      *)
(* sequences of one-character strings, so that str.lower(), str.upper(),   *)
(* str.strip() and the "in" substring test are computed, not assumed.      *)
(*                                                                         *)
(* total_priority_score is a REAL; the model keeps it as an exact rational *)
(* with denominator TotalUnit (a stored 35.0 is 35 * TotalUnit).  Binary   *)
(* floating-point rounding is not modelled.                                *)
(***************************************************************************)
EXTENDS Integers, Sequences, FiniteSets, TLC

----------------------------------------------------------------------------
(* Bounds of the model.                                                    *)

\* at most this many asset rows are created in a behaviour
MaxAssets == 2
\* at most this many rows in one imported spreadsheet
MaxBatch == 3
\* the spreadsheets enumerated in full have at most this many rows
MaxSheetRows == 2
\* at most this many criterion changes (add, edit, delete) in a behaviour
MaxCriterionChanges == 1
\* at most this many reference-data rows (classes, types) are added in a behaviour
MaxRefAdds == 2
\* at most this many risk assessments are recorded in a behaviour
MaxRisk == 2
\* the project_year_cost rows a behaviour may add
MaxCosts == 1
\* the status updates a behaviour may submit
MaxStatusUpdates == 2
\* the last day a behaviour reaches
MaxDay == 2

----------------------------------------------------------------------------
(* Text.                                                                   *)

UpperChars == <<"A","B","C","D","E","F","G","H","I","J","K","L","M",
                "N","O","P","Q","R","S","T","U","V","W","X","Y","Z">>
LowerChars == <<"a","b","c","d","e","f","g","h","i","j","k","l","m",
                "n","o","p","q","r","s","t","u","v","w","x","y","z">>

\* str.upper() / str.lower() on one character
UpperChar(ch) ==
    IF \E i \in 1..Len(LowerChars) : LowerChars[i] = ch
    THEN UpperChars[CHOOSE i \in 1..Len(LowerChars) : LowerChars[i] = ch]
    ELSE ch
LowerChar(ch) ==
    IF \E i \in 1..Len(UpperChars) : UpperChars[i] = ch
    THEN LowerChars[CHOOSE i \in 1..Len(UpperChars) : UpperChars[i] = ch]
    ELSE ch

\* str.upper(), str.lower(), SQL LOWER()
Upper(s) == [i \in 1..Len(s) |-> UpperChar(s[i])]
Lower(s) == [i \in 1..Len(s) |-> LowerChar(s[i])]

\* Python's  sub in s
Contains(s, sub) ==
    \E k \in 0..(Len(s) - Len(sub)) :
        \A i \in 1..Len(sub) : s[k + i] = sub[i]

\* str.strip(): leading and trailing blanks removed
Strip(s) ==
    LET idx == {i \in 1..Len(s) : s[i] # " "}
    IN  IF idx = {} THEN <<>>
        ELSE LET lo == CHOOSE i \in idx : \A j \in idx : i <= j
                 hi == CHOOSE i \in idx : \A j \in idx : j <= i
             IN  [i \in 1..(hi - lo + 1) |-> s[lo + i - 1]]

\* smallest / largest element of a non-empty set of integers
Min(S) == CHOOSE x \in S : \A y \in S : x <= y
Max(S) == CHOOSE x \in S : \A y \in S : y <= x

----------------------------------------------------------------------------
(* Names: the rows init_database seeds, and the names the inputs use.      *)

\* asset_class rows seeded by init_database
BridgesCulverts == <<"B","r","i","d","g","e","s"," ","&"," ","C","u","l","v","e","r","t","s">>
Regulators == <<"R","e","g","u","l","a","t","o","r","s">>
Outlets == <<"O","u","t","l","e","t","s">>
PumpStations == <<"P","u","m","p"," ","S","t","a","t","i","o","n","s"," ","&"," ","F","a","c","i","l","i","t","i","e","s">>
Channels == <<"C","h","a","n","n","e","l","s">>
Meters == <<"M","e","t","e","r","s">>

\* design_status and env_status rows seeded by init_database
ToBeAssigned == <<"T","o"," ","b","e"," ","a","s","s","i","g","n","e","d">>
UnderDevelopment == <<"U","n","d","e","r"," ","D","e","v","e","l","o","p","m","e","n","t">>
ForReview == <<"F","o","r"," ","R","e","v","i","e","w">>
Approved == <<"A","p","p","r","o","v","e","d">>
PendingWAE == <<"P","e","n","d","i","n","g"," ","W","A","E">>
Complete == <<"C","o","m","p","l","e","t","e">>
Pending == <<"P","e","n","d","i","n","g">>

\* criterion rows seeded by init_database
WHS == <<"W","H","S">>
WaterSavings == <<"W","a","t","e","r"," ","S","a","v","i","n","g","s">>
Customer == <<"C","u","s","t","o","m","e","r">>
MaintenanceOps == <<"M","a","i","n","t","e","n","a","n","c","e","/","O","p","s">>
Financial == <<"F","i","n","a","n","c","i","a","l">>

\* the substrings recalculate_priority_scores looks for
K_WHS == <<"W","H","S">>
K_SAFETY == <<"S","A","F","E","T","Y">>
K_WATER == <<"W","A","T","E","R">>
K_CUSTOMER == <<"C","U","S","T","O","M","E","R">>
K_MAINTENANCE == <<"M","A","I","N","T","E","N","A","N","C","E">>
K_FINANCIAL == <<"F","I","N","A","N","C","I","A","L">>
K_COST == <<"C","O","S","T">>
K_ROI == <<"R","O","I">>

\* names typed into forms or read from spreadsheet cells
channels_lc == <<"c","h","a","n","n","e","l","s">>
Tunnels == <<"T","u","n","n","e","l","s">>
TUNNELS_uc == <<"T","U","N","N","E","L","S">>
General == <<"G","e","n","e","r","a","l">>
general_lc == <<"g","e","n","e","r","a","l">>
Siphon == <<"S","i","p","h","o","n">>
approved_lc == <<"a","p","p","r","o","v","e","d">>
Deferred == <<"D","e","f","e","r","r","e","d">>
WaterSafety == <<"W","a","t","e","r"," ","S","a","f","e","t","y">>
LifeCost == <<"L","i","f","e"," ","C","o","s","t">>
roi_lc == <<"r","o","i">>
Risk == <<"R","i","s","k">>
Risk_padded == <<" ","R","i","s","k"," ">>
Empty == <<>>

----------------------------------------------------------------------------
(* The tables.  Every table is the set of its rows; a row is a record      *)
(* whose fields carry the column names of the CREATE TABLE statements.     *)
(* Columns no modelled handler reads (description, comments, created_at,   *)
(* updated_at, location_id, construct_year) are left out.                  *)

VARIABLES
    asset_class,            \* [asset_class_id, class_name]
    asset_type_l4,          \* [asset_type_id, asset_class_id, type_name]
    design_status,          \* [design_status_id, status_name]
    env_status,             \* [env_status_id, status_name]
    asset,                  \* [asset_id, asset_code, asset_type_id]
    criterion,              \* [criterion_name, weight_pct]
    priority_score,         \* [score_id, asset_id, whs_score, ..., total_priority_score]
    project,                \* [project_id, asset_id, project_scope, design_status_id,
                            \*  env_status_id, priority_rank]
    risk_assessment,        \* [risk_id, project_id, consequence_id, likelihood_id, risk_rating]
    project_status_history, \* [history_id, project_id, project_status_id, status_date]
    project_year_cost,      \* [cost_id, project_id, financial_year, project_cost]
    sqlite_sequence,        \* the AUTOINCREMENT counter of every table
    today,                  \* what date('now') returns
    imp,                    \* the running import_projects_from_spreadsheet call, if any
    report,                 \* what the last handler returned or displayed
    criterion_changes,      \* how many criterion changes were committed so far
    deleting                \* a second session's delete_asset_class submission, if any

tables == <<asset_class, asset_type_l4, design_status, env_status, asset, criterion,
            priority_score, project, risk_assessment, project_status_history,
            project_year_cost, sqlite_sequence>>

vars == <<asset_class, asset_type_l4, design_status, env_status, asset, criterion,
          priority_score, project, risk_assessment, project_status_history,
          project_year_cost, sqlite_sequence, today, imp, report, criterion_changes,
          deleting>>

\* priority_rank INTEGER is nullable; a NULL rank is modelled as NoRank
NoRank == 0

\* rows seeded by init_database, in insertion order (the position is the id)
SeedAssetClasses == <<BridgesCulverts, Regulators, Outlets, PumpStations, Channels, Meters>>
SeedDesignStatuses == <<ToBeAssigned, UnderDevelopment, ForReview, Approved, PendingWAE, Complete>>
SeedEnvStatuses == <<Pending, Complete>>
SeedProjectStatuses == <<"PLANNED", "DESIGN", "APPROVED", "IN_PROGRESS", "COMPLETED", "ON_HOLD">>
SeedCriteria == <<[criterion_name |-> WHS,            weight_pct |-> 30],
                  [criterion_name |-> WaterSavings,   weight_pct |-> 20],
                  [criterion_name |-> Customer,       weight_pct |-> 30],
                  [criterion_name |-> MaintenanceOps, weight_pct |-> 10],
                  [criterion_name |-> Financial,      weight_pct |-> 10]>>
\* consequence and likelihood: the seeded score of row i (id i)
SeedConsequences == <<[code |-> "L",  description |-> "Low",          score |-> 1],
                      [code |-> "M",  description |-> "Medium",       score |-> 2],
                      [code |-> "H",  description |-> "High",         score |-> 3],
                      [code |-> "VH", description |-> "Very High",    score |-> 4],
                      [code |-> "C",  description |-> "Catastrophic", score |-> 5]>>
SeedLikelihoods == <<[code |-> "R",  description |-> "Rare",           score |-> 1],
                     [code |-> "U",  description |-> "Unlikely",       score |-> 2],
                     [code |-> "O",  description |-> "Occasional",     score |-> 3],
                     [code |-> "L",  description |-> "Likely",         score |-> 4],
                     [code |-> "HL", description |-> "Highly Likely",  score |-> 5],
                     [code |-> "AC", description |-> "Almost Certain", score |-> 6]>>

\* SELECT project_status_id FROM project_status WHERE status_code = code
ProjectStatusId(code) ==
    CHOOSE i \in 1..Len(SeedProjectStatuses) : SeedProjectStatuses[i] = code

\* no import is running
Idle == [pc |-> "idle", rows |-> <<>>, index |-> 0, overwrite_existing |-> FALSE,
         asset_classes |-> {}, design_statuses |-> {}, env_statuses |-> {},
         imported_count |-> 0, errors |-> <<>>]

\* no delete_asset_class submission of a second session is between its SELECT and
\* its DELETE
NotDeleting == [pc |-> "idle", selected_class_delete |-> <<>>]

NoReport == [op |-> "none", ok |-> TRUE, count |-> 0, errors |-> <<>>]

\* The criterion table a behaviour starts from: the five seeded rows, or what is left
\* of them once the first four were deleted in the Criteria Weights tab.
InitialCriteria ==
    {{SeedCriteria[i] : i \in 1..Len(SeedCriteria)}, {SeedCriteria[Len(SeedCriteria)]}}

\* the database init_database leaves, before any project exists
Init ==
    /\ asset_class = {[asset_class_id |-> i, class_name |-> SeedAssetClasses[i]] :
                        i \in 1..Len(SeedAssetClasses)}
    /\ asset_type_l4 = {}
    /\ design_status = {[design_status_id |-> i, status_name |-> SeedDesignStatuses[i]] :
                          i \in 1..Len(SeedDesignStatuses)}
    /\ env_status = {[env_status_id |-> i, status_name |-> SeedEnvStatuses[i]] :
                       i \in 1..Len(SeedEnvStatuses)}
    /\ asset = {}
    /\ criterion \in InitialCriteria
    /\ priority_score = {}
    /\ project = {}
    /\ risk_assessment = {}
    /\ project_status_history = {}
    /\ project_year_cost = {}
    /\ sqlite_sequence = [asset_class |-> Len(SeedAssetClasses), asset_type_l4 |-> 0,
                          asset |-> 0, priority_score |-> 0, project |-> 0,
                          risk_assessment |-> 0, project_status_history |-> 0,
                          project_year_cost |-> 0]
    /\ today = 1
    /\ imp = Idle
    /\ report = NoReport
    /\ criterion_changes = 0
    /\ deleting = NotDeleting

----------------------------------------------------------------------------
(* Priority scores.                                                        *)

\* a stored total t stands for t / TotalUnit: weight_pct / 100, and the mean of the
\* five component scores, are then exact
TotalUnit == 100 * 5

ScoreFields == <<"whs_score", "water_savings_score", "customer_score",
                 "maintenance_score", "financial_score">>

\* a faulty variant of FlatTotal: the components weighted by the seeded weights
FlatTotal_Weighted(whs, water, customer, maintenance, financial) ==
    (whs * 30 + water * 20 + customer * 30 + maintenance * 10 + financial * 10)
       * ((100 * 5) \div 100)

\* total_score = whs_score + water_score + customer_score + maintenance_score
\*               + financial_score, as the forms and the import compute it
FlatTotal(whs, water, customer, maintenance, financial) ==
    (whs + water + customer + maintenance + financial) * TotalUnit

\* row[1] / 100, in units of 1 / TotalUnit
WeightOf(weight_pct) == weight_pct * (TotalUnit \div 100)

\* sum(score_mapping.values()) / len(score_mapping), times weight
AverageContribution(ps, weight_pct) ==
    ((ps.whs_score + ps.water_savings_score + ps.customer_score
        + ps.maintenance_score + ps.financial_score) * WeightOf(weight_pct))
      \div Len(ScoreFields)

\* a faulty variant of Contribution: WATER is looked for before WHS and SAFETY
Contribution_WaterFirst(criterion_name, weight_pct, ps) ==
    LET u == Upper(criterion_name)
    IN  IF Contains(u, K_WATER)
            THEN ps.water_savings_score * WeightOf(weight_pct)
        ELSE IF Contains(u, K_WHS) \/ Contains(u, K_SAFETY)
            THEN ps.whs_score * WeightOf(weight_pct)
        ELSE IF Contains(u, K_CUSTOMER)
            THEN ps.customer_score * WeightOf(weight_pct)
        ELSE IF Contains(u, K_MAINTENANCE)
            THEN ps.maintenance_score * WeightOf(weight_pct)
        ELSE IF Contains(u, K_FINANCIAL) \/ Contains(u, K_COST) \/ Contains(u, K_ROI)
            THEN ps.financial_score * WeightOf(weight_pct)
        ELSE AverageContribution(ps, weight_pct)

\* what one criterion adds to new_total: the if / elif chain on criterion_name.upper()
Contribution(criterion_name, weight_pct, ps) ==
    LET u == Upper(criterion_name)
    IN  IF Contains(u, K_WHS) \/ Contains(u, K_SAFETY)
            THEN ps.whs_score * WeightOf(weight_pct)
        ELSE IF Contains(u, K_WATER)
            THEN ps.water_savings_score * WeightOf(weight_pct)
        ELSE IF Contains(u, K_CUSTOMER)
            THEN ps.customer_score * WeightOf(weight_pct)
        ELSE IF Contains(u, K_MAINTENANCE)
            THEN ps.maintenance_score * WeightOf(weight_pct)
        ELSE IF Contains(u, K_FINANCIAL) \/ Contains(u, K_COST) \/ Contains(u, K_ROI)
            THEN ps.financial_score * WeightOf(weight_pct)
        ELSE AverageContribution(ps, weight_pct)

\* a faulty variant of NewTotal: the sum starts from the stored total instead of 0
RECURSIVE NewTotal_FromStored(_, _)
NewTotal_FromStored(criteria, ps) ==
    IF criteria = {} THEN ps.total_priority_score
    ELSE LET cr == CHOOSE x \in criteria : TRUE
         IN  Contribution(cr.criterion_name, cr.weight_pct, ps)
               + NewTotal_FromStored(criteria \ {cr}, ps)

\* new_total = 0; for criterion_name, weight in criteria_weights.items(): new_total += ...
RECURSIVE NewTotal(_, _)
NewTotal(criteria, ps) ==
    IF criteria = {} THEN 0
    ELSE LET cr == CHOOSE x \in criteria : TRUE
         IN  Contribution(cr.criterion_name, cr.weight_pct, ps)
               + NewTotal(criteria \ {cr}, ps)

\* the rows of  SELECT ... FROM priority_score ps  in rowid order
RECURSIVE ScoreRows(_)
ScoreRows(scores) ==
    IF scores = {} THEN <<>>
    ELSE LET first == CHOOSE x \in scores : \A y \in scores : x.score_id <= y.score_id
         IN  <<first>> \o ScoreRows(scores \ {first})

\* the first k  UPDATE priority_score SET total_priority_score = ? WHERE score_id = ?
TotalsAfter(scores, criteria, k) ==
    LET rows == ScoreRows(scores)
        done == {rows[i].score_id : i \in 1..k}
    IN  {IF ps.score_id \in done
            THEN [ps EXCEPT !.total_priority_score = NewTotal(criteria, ps)]
            ELSE ps : ps \in scores}

\* project p JOIN asset a LEFT JOIN priority_score ps: one row per project and score of
\* its asset, one row with a NULL total for a project whose asset has no score
JoinRows(projects, assets, scores) ==
    {[project_id |-> p.project_id, has_total |-> TRUE, score_id |-> ps.score_id,
      total_priority_score |-> ps.total_priority_score] :
        <<p, ps>> \in {<<p, ps>> \in projects \X scores :
                         /\ ps.asset_id = p.asset_id
                         /\ \E a \in assets : a.asset_id = p.asset_id}}
    \cup
    {[project_id |-> p.project_id, has_total |-> FALSE, score_id |-> 0,
      total_priority_score |-> 0] :
        p \in {p \in projects : /\ \E a \in assets : a.asset_id = p.asset_id
                                /\ \A ps \in scores : ps.asset_id # p.asset_id}}

\* a faulty variant of ComesBefore: ORDER BY total_priority_score, ascending
ComesBefore_Ascending(r1, r2) ==
    \/ r1.has_total /\ ~r2.has_total
    \/ /\ r1.has_total = r2.has_total
       /\ \/ r1.has_total /\ r1.total_priority_score < r2.total_priority_score
          \/ /\ (r1.has_total => r1.total_priority_score = r2.total_priority_score)
             /\ \/ r1.project_id < r2.project_id
                \/ r1.project_id = r2.project_id /\ r1.score_id <= r2.score_id

\* ORDER BY total_priority_score DESC: NULL totals last, equal totals in scan order
ComesBefore(r1, r2) ==
    \/ r1.has_total /\ ~r2.has_total
    \/ /\ r1.has_total = r2.has_total
       /\ \/ r1.has_total /\ r1.total_priority_score > r2.total_priority_score
          \/ /\ (r1.has_total => r1.total_priority_score = r2.total_priority_score)
             /\ \/ r1.project_id < r2.project_id
                \/ r1.project_id = r2.project_id /\ r1.score_id <= r2.score_id

RECURSIVE OrderByTotalDesc(_)
OrderByTotalDesc(rows) ==
    IF rows = {} THEN <<>>
    ELSE LET first == CHOOSE x \in rows : \A y \in rows : ComesBefore(x, y)
         IN  <<first>> \o OrderByTotalDesc(rows \ {first})

\* for rank, row in enumerate(rows, 1): UPDATE project SET priority_rank = rank
\* WHERE project_id = row.project_id   (the first k of them)
RECURSIVE RanksAfter(_, _, _)
RanksAfter(projects, rows, k) ==
    IF k = 0 THEN projects
    ELSE {IF p.project_id = rows[k].project_id THEN [p EXCEPT !.priority_rank = k] ELSE p :
            p \in RanksAfter(projects, rows, k - 1)}

\* a faulty variant of CloseWithoutCommit: what was written before the error stays
CloseKeepsPending(committed, pending) == pending

\* A connection closed (or dropped by the rerun of the script) without commit: sqlite3
\* rolls the open transaction back, and the database file keeps what was committed.
CloseWithoutCommit(committed, pending) == committed

\* a faulty variant of recalculate_priority_scores: no early return on an empty
\* criterion table
recalculate_NoEarlyReturn(scores, projects, assets, criteria, fail) ==
    LET n      == Cardinality(scores)
        totals == TotalsAfter(scores, criteria, n)
        rows   == OrderByTotalDesc(JoinRows(projects, assets, totals))
    IN  [db |-> [priority_score |-> totals,
                 project |-> RanksAfter(projects, rows, Len(rows))],
         updated |-> n, error |-> FALSE]

\* recalculate_priority_scores(conn).  fail = -1: no statement raises.  fail = k >= 0:
\* the statement after the k-th write raises (a locked or unwritable database); the
\* except clause reports the error and returns 0 without commit or rollback, and the
\* caller's connection is closed without commit.
\* Result: the committed priority_score and project tables, the returned count, and
\* whether st.error was shown.
recalculate_priority_scores(scores, projects, assets, criteria, fail) ==
    LET n       == Cardinality(scores)
        old     == [priority_score |-> scores, project |-> projects]
    IN  IF fail = 0
        THEN [db |-> old, updated |-> 0, error |-> TRUE]
        ELSE IF criteria = {}
        THEN [db |-> old, updated |-> 0, error |-> FALSE]
        ELSE LET k1      == IF fail = -1 \/ fail > n THEN n ELSE fail
                 totals  == TotalsAfter(scores, criteria, k1)
                 rows    == OrderByTotalDesc(JoinRows(projects, assets, totals))
                 m       == Len(rows)
                 k2      == IF fail = -1 \/ fail > n + m THEN m
                            ELSE IF fail > n THEN fail - n ELSE 0
                 view    == [priority_score |-> totals,
                             project |-> RanksAfter(projects, rows, k2)]
             IN  IF fail = -1 \/ fail > n + m
                 THEN [db |-> view, updated |-> n, error |-> FALSE]
                 ELSE [db |-> CloseWithoutCommit(old, view), updated |-> 0, error |-> TRUE]

----------------------------------------------------------------------------
(* Reference lookups shared by the forms and the import.                   *)

\* the number of asset_type_l4 rows a behaviour may create
MaxTypes == MaxAssets + MaxRefAdds

\* SELECT asset_type_id FROM asset_type_l4 WHERE type_name=? AND asset_class_id=?
\* followed by fetchone(): the matching row met first, if any (0: no row)
TypeLookup(types, type_name, class_id) ==
    LET found == {t.asset_type_id : t \in {t \in types : /\ t.type_name = type_name
                                                          /\ t.asset_class_id = class_id}}
    IN  IF found = {} THEN 0 ELSE Min(found)

\* "Check if asset type exists, if not create it": the id, and the table afterwards
GetOrCreateType(types, last_id, type_name, class_id) ==
    LET found == TypeLookup(types, type_name, class_id)
    IN  IF found # 0
        THEN [asset_type_id |-> found, asset_type_l4 |-> types, last_id |-> last_id]
        ELSE [asset_type_id |-> last_id + 1,
              asset_type_l4 |-> types \cup {[asset_type_id |-> last_id + 1,
                                             asset_class_id |-> class_id,
                                             type_name |-> type_name]},
              last_id |-> last_id + 1]

\* a faulty variant of InitialStatus: the first status is DESIGN
InitialStatus_Design(history_id, project_id) ==
    [history_id |-> history_id, project_id |-> project_id,
     project_status_id |-> ProjectStatusId("DESIGN"), status_date |-> today]

\* "Add initial status": the project_status_history row of a project just inserted,
\* status PLANNED, status_date date('now')
InitialStatus(history_id, project_id) ==
    [history_id |-> history_id, project_id |-> project_id,
     project_status_id |-> ProjectStatusId("PLANNED"), status_date |-> today]

Rep(op, ok, count, errors) == [op |-> op, ok |-> ok, count |-> count, errors |-> errors]

----------------------------------------------------------------------------
(* "Add/Edit/Delete Project" page.                                         *)

\* new_project_form, submitted.  f: the values of the form's widgets.
\* Every statement runs in one transaction committed at the end; an exception (the
\* UNIQUE asset_code) is reported and the page's conn.close() drops what was written.
NewProject(f) ==
    /\ imp.pc = "idle"
    /\ f.asset_class_id \in {c.asset_class_id : c \in asset_class}
    /\ f.design_status_id \in {d.design_status_id : d \in design_status}
    /\ f.env_status_id \in {e.env_status_id : e \in env_status}
    /\ sqlite_sequence.asset < MaxAssets
    /\ sqlite_sequence.asset_type_l4 < MaxTypes
    /\ IF f.asset_code = "" \/ f.project_scope = ""
       THEN /\ report' = Rep("new_project", FALSE, 0, <<"required">>)
            /\ UNCHANGED tables
       ELSE IF \E a \in asset : a.asset_code = f.asset_code
       THEN /\ report' = Rep("new_project", FALSE, 0, <<"exception">>)
            /\ UNCHANGED tables
       ELSE LET ty         == GetOrCreateType(asset_type_l4, sqlite_sequence.asset_type_l4,
                                              f.comments, f.asset_class_id)
                asset_id   == sqlite_sequence.asset + 1
                score_id   == sqlite_sequence.priority_score + 1
                project_id == sqlite_sequence.project + 1
                history_id == sqlite_sequence.project_status_history + 1
            IN  /\ asset_type_l4' = ty.asset_type_l4
                /\ asset' = asset \cup {[asset_id |-> asset_id, asset_code |-> f.asset_code,
                                         asset_type_id |-> ty.asset_type_id]}
                /\ priority_score' = priority_score \cup
                     {[score_id |-> score_id, asset_id |-> asset_id,
                       whs_score |-> f.whs_score, water_savings_score |-> f.water_score,
                       customer_score |-> f.customer_score,
                       maintenance_score |-> f.maintenance_score,
                       financial_score |-> f.financial_score,
                       total_priority_score |->
                           FlatTotal(f.whs_score, f.water_score, f.customer_score,
                                     f.maintenance_score, f.financial_score)]}
                /\ project' = project \cup
                     {[project_id |-> project_id, asset_id |-> asset_id,
                       project_scope |-> f.project_scope,
                       design_status_id |-> f.design_status_id,
                       env_status_id |-> f.env_status_id, priority_rank |-> NoRank]}
                /\ project_status_history' = project_status_history \cup
                     {InitialStatus(history_id, project_id)}
                /\ sqlite_sequence' = [sqlite_sequence EXCEPT
                       !.asset_type_l4 = ty.last_id, !.asset = asset_id,
                       !.priority_score = score_id, !.project = project_id,
                       !.project_status_history = history_id]
                /\ report' = Rep("new_project", TRUE, project_id, <<>>)
                /\ UNCHANGED <<asset_class, design_status, env_status, criterion,
                               risk_assessment, project_year_cost>>
    /\ UNCHANGED <<today, deleting, imp, criterion_changes>>

\* the projects the edit and delete tabs list: project JOIN asset JOIN asset_type_l4
\* JOIN asset_class
ListedProjects ==
    {p \in project :
        \E a \in asset : /\ a.asset_id = p.asset_id
                         /\ \E t \in asset_type_l4 :
                              /\ t.asset_type_id = a.asset_type_id
                              /\ \E c \in asset_class : c.asset_class_id = t.asset_class_id}

\* edit_project_form, submitted for the listed project sel.
EditProject(sel, f) ==
    /\ imp.pc = "idle"
    /\ sel \in ListedProjects
    /\ f.asset_class_id \in {c.asset_class_id : c \in asset_class}
    /\ f.design_status_id \in {d.design_status_id : d \in design_status}
    /\ f.env_status_id \in {e.env_status_id : e \in env_status}
    /\ sqlite_sequence.asset_type_l4 < MaxTypes
    /\ IF f.asset_code = "" \/ f.project_scope = ""
       THEN /\ report' = Rep("edit_project", FALSE, 0, <<"required">>)
            /\ UNCHANGED tables
       ELSE IF \E a \in asset : a.asset_code = f.asset_code /\ a.asset_id # sel.asset_id
       THEN /\ report' = Rep("edit_project", FALSE, 0, <<"exception">>)
            /\ UNCHANGED tables
       ELSE LET ty    == GetOrCreateType(asset_type_l4, sqlite_sequence.asset_type_l4,
                                         f.comments, f.asset_class_id)
                total == FlatTotal(f.whs_score, f.water_score, f.customer_score,
                                   f.maintenance_score, f.financial_score)
                has   == \E ps \in priority_score : ps.asset_id = sel.asset_id
                score_id == sqlite_sequence.priority_score + 1
            IN  /\ asset_type_l4' = ty.asset_type_l4
                /\ asset' = {IF a.asset_id = sel.asset_id
                                THEN [a EXCEPT !.asset_code = f.asset_code,
                                               !.asset_type_id = ty.asset_type_id]
                                ELSE a : a \in asset}
                /\ priority_score' =
                     IF has
                     THEN {IF ps.asset_id = sel.asset_id
                              THEN [ps EXCEPT !.whs_score = f.whs_score,
                                              !.water_savings_score = f.water_score,
                                              !.customer_score = f.customer_score,
                                              !.maintenance_score = f.maintenance_score,
                                              !.financial_score = f.financial_score,
                                              !.total_priority_score = total]
                              ELSE ps : ps \in priority_score}
                     ELSE priority_score \cup
                            {[score_id |-> score_id, asset_id |-> sel.asset_id,
                              whs_score |-> f.whs_score,
                              water_savings_score |-> f.water_score,
                              customer_score |-> f.customer_score,
                              maintenance_score |-> f.maintenance_score,
                              financial_score |-> f.financial_score,
                              total_priority_score |-> total]}
                /\ project' = {IF p.project_id = sel.project_id
                                  THEN [p EXCEPT !.project_scope = f.project_scope,
                                                 !.design_status_id = f.design_status_id,
                                                 !.env_status_id = f.env_status_id]
                                  ELSE p : p \in project}
                /\ sqlite_sequence' = [sqlite_sequence EXCEPT
                       !.asset_type_l4 = ty.last_id,
                       !.priority_score = IF has THEN @ ELSE score_id]
                /\ report' = Rep("edit_project", TRUE, sel.project_id, <<>>)
                /\ UNCHANGED <<asset_class, design_status, env_status, criterion,
                               risk_assessment, project_year_cost,
                               project_status_history>>
    /\ UNCHANGED <<today, deleting, imp, criterion_changes>>

\* a faulty variant of DeleteProject: the ranks below the deleted one move up
DeleteProject_Renumbers(sel) ==
    /\ imp.pc = "idle"
    /\ sel \in ListedProjects
    /\ project' = {[p EXCEPT !.priority_rank =
                               IF sel.priority_rank # NoRank /\ @ > sel.priority_rank
                               THEN @ - 1 ELSE @] : p \in project \ {sel}}
    /\ report' = Rep("delete_project", TRUE, sel.project_id, <<>>)
    /\ UNCHANGED <<asset_class, asset_type_l4, design_status, env_status, asset,
                   criterion, priority_score, risk_assessment, project_year_cost,
                   project_status_history, sqlite_sequence, today, deleting, imp,
                   criterion_changes>>

\* a faulty variant of DeleteProject: the project's asset and its priority_score rows
\* are deleted with it
DeleteProject_WithAsset(sel) ==
    /\ imp.pc = "idle"
    /\ sel \in ListedProjects
    /\ project' = project \ {sel}
    /\ asset' = {a \in asset : a.asset_id # sel.asset_id}
    /\ priority_score' = {ps \in priority_score : ps.asset_id # sel.asset_id}
    /\ report' = Rep("delete_project", TRUE, sel.project_id, <<>>)
    /\ UNCHANGED <<asset_class, asset_type_l4, design_status, env_status, criterion,
                   risk_assessment, project_year_cost, project_status_history,
                   sqlite_sequence, today, deleting, imp, criterion_changes>>

\* "Yes, Delete Project" for the listed project sel: DELETE FROM project WHERE project_id = ?
DeleteProject(sel) ==
    /\ imp.pc = "idle"
    /\ sel \in ListedProjects
    /\ project' = project \ {sel}
    /\ report' = Rep("delete_project", TRUE, sel.project_id, <<>>)
    /\ UNCHANGED <<asset_class, asset_type_l4, design_status, env_status, asset,
                   criterion, priority_score, risk_assessment, project_year_cost,
                   project_status_history, sqlite_sequence, today, deleting, imp,
                   criterion_changes>>

----------------------------------------------------------------------------
(* "Priority Scoring" page.                                                *)

\* Opening the page: the listed projects are ranked by total, and the ranks committed.
ViewPriorityScoring ==
    /\ imp.pc = "idle"
    /\ LET rows == OrderByTotalDesc(JoinRows(project, asset, priority_score))
       IN  /\ rows # <<>>
           /\ project' = RanksAfter(project, rows, Len(rows))
           /\ report' = Rep("view_priority_scoring", TRUE, Len(rows), <<>>)
    /\ UNCHANGED <<asset_class, asset_type_l4, design_status, env_status, asset,
                   criterion, priority_score, risk_assessment, project_year_cost,
                   project_status_history, sqlite_sequence, today, deleting, imp,
                   criterion_changes>>

----------------------------------------------------------------------------
(* "Risk Assessment" page.                                                 *)

\* a faulty variant of RiskRating: the High band starts one step late
RiskRating_LateHigh(cons_score, like_score) ==
    LET risk_score == cons_score + like_score
    IN  IF risk_score <= 3 THEN "Low"
        ELSE IF risk_score <= 7 THEN "Moderate"
        ELSE IF risk_score <= 9 THEN "High"
        ELSE "Extreme"

\* risk_score = cons_score + like_score, and the if / elif chain on it
RiskRating(cons_score, like_score) ==
    LET risk_score == cons_score + like_score
    IN  IF risk_score <= 3 THEN "Low"
        ELSE IF risk_score <= 6 THEN "Moderate"
        ELSE IF risk_score <= 9 THEN "High"
        ELSE "Extreme"

\* risk_matrix_data: the rows of the displayed matrix, from Catastrophic down to Low,
\* and one column of cells per likelihood
RiskMatrixRows == <<"Catastrophic", "Very High", "High", "Medium", "Low">>
risk_matrix_data ==
    [d \in {SeedLikelihoods[i].description : i \in 1..Len(SeedLikelihoods)} |->
        CASE d = "Rare"           -> <<"High", "Moderate", "Moderate", "Low", "Low">>
          [] d = "Unlikely"       -> <<"High", "High", "Moderate", "Moderate", "Low">>
          [] d = "Occasional"     -> <<"High", "High", "High", "Moderate", "Moderate">>
          [] d = "Likely"         -> <<"Extreme", "High", "High", "High", "Moderate">>
          [] d = "Highly Likely"  -> <<"Extreme", "Extreme", "High", "High", "Moderate">>
          [] d = "Almost Certain" -> <<"Extreme", "Extreme", "Extreme", "High", "High">>]

\* the cell of df_matrix in the row of a consequence and the column of a likelihood
MatrixCell(consequence_id, likelihood_id) ==
    LET row == CHOOSE i \in 1..Len(RiskMatrixRows) :
                  RiskMatrixRows[i] = SeedConsequences[consequence_id].description
    IN  risk_matrix_data[SeedLikelihoods[likelihood_id].description][row]

\* risk_assessment_form, submitted: one row is inserted with the computed rating
AddRiskAssessment(project_id, consequence_id, likelihood_id) ==
    /\ imp.pc = "idle"
    /\ \E p \in project : /\ p.project_id = project_id
                          /\ \E a \in asset : a.asset_id = p.asset_id
    /\ consequence_id \in 1..Len(SeedConsequences)
    /\ likelihood_id \in 1..Len(SeedLikelihoods)
    /\ Cardinality(risk_assessment) < MaxRisk
    /\ LET risk_id == sqlite_sequence.risk_assessment + 1
       IN  /\ risk_assessment' = risk_assessment \cup
                {[risk_id |-> risk_id, project_id |-> project_id,
                  consequence_id |-> consequence_id, likelihood_id |-> likelihood_id,
                  risk_rating |-> RiskRating(SeedConsequences[consequence_id].score,
                                             SeedLikelihoods[likelihood_id].score)]}
           /\ sqlite_sequence' = [sqlite_sequence EXCEPT !.risk_assessment = risk_id]
           /\ report' = Rep("add_risk_assessment", TRUE, risk_id, <<>>)
    /\ UNCHANGED <<asset_class, asset_type_l4, design_status, env_status, asset,
                   criterion, priority_score, project, project_status_history,
                   project_year_cost, today, deleting, imp, criterion_changes>>

----------------------------------------------------------------------------
(* "Financial Summary" page.                                               *)

\* the financial years the form's selectbox offers
FinancialYears == <<"FY 24-25", "FY 25-26", "FY 26-27", "FY 27-28", "FY 28-29",
                    "FY 29-30", "FY 30-31", "FY 31-32", "FY 32-33", "FY 33-34">>

\* add_costs_form, submitted: one project_year_cost row is inserted and committed
AddCostEntry(selected_project, financial_year, project_cost) ==
    /\ imp.pc = "idle"
    /\ \E p \in project : /\ p.project_id = selected_project
                          /\ \E a \in asset : a.asset_id = p.asset_id
    /\ Cardinality(project_year_cost) < MaxCosts
    /\ LET cost_id == sqlite_sequence.project_year_cost + 1
       IN  /\ project_year_cost' = project_year_cost \cup
                {[cost_id |-> cost_id, project_id |-> selected_project,
                  financial_year |-> financial_year, project_cost |-> project_cost]}
           /\ sqlite_sequence' = [sqlite_sequence EXCEPT !.project_year_cost = cost_id]
           /\ report' = Rep("add_cost_entry", TRUE, cost_id, <<>>)
    /\ UNCHANGED <<asset_class, asset_type_l4, design_status, env_status, asset, criterion,
                   priority_score, project, risk_assessment, project_status_history,
                   today, deleting, imp, criterion_changes>>

----------------------------------------------------------------------------
(* "Status Tracking" page.                                                 *)

\* a faulty variant of FirstByDateDesc: the rows are ordered by status_date ascending
FirstByDateDesc_Ascending(history, project_id) ==
    {h \in history :
        /\ h.project_id = project_id
        /\ \A g \in history : g.project_id = project_id => g.status_date >= h.status_date}

\* The rows ROW_NUMBER() OVER (PARTITION BY project_id ORDER BY status_date DESC) can
\* number 1 in the partition of project_id: the ORDER BY names status_date alone, so
\* among the rows of the latest date the choice is the database engine's.
FirstByDateDesc(history, project_id) ==
    {h \in history :
        /\ h.project_id = project_id
        /\ \A g \in history : g.project_id = project_id => g.status_date <= h.status_date}

\* project_count of the status distribution: COUNT(DISTINCT psh.project_id) of the
\* rows numbered 1 (rn1) that join the project_status row
ProjectCount(rn1, project_status_id) ==
    Cardinality({h.project_id : h \in {h \in rn1 : h.project_status_id = project_status_id}})

\* Opening the page: the status distribution is computed and shown.
ViewStatusTracking ==
    /\ imp.pc = "idle"
    /\ \E rn1 \in SUBSET project_status_history :
          /\ \A h \in rn1 : h \in FirstByDateDesc(project_status_history, h.project_id)
          /\ \A h \in project_status_history :
                Cardinality({g \in rn1 : g.project_id = h.project_id}) = 1
          /\ report' = [op |-> "view_status_tracking", ok |-> TRUE, count |-> 0,
                        errors |-> <<>>, rn1 |-> rn1,
                        df_status |-> [i \in 1..Len(SeedProjectStatuses) |->
                                          ProjectCount(rn1, i)]]
    /\ UNCHANGED <<tables, today, deleting, imp, criterion_changes>>

\* a faulty variant of UpdateStatus: the project's status row is replaced
UpdateStatus_Replaces(selected_project, new_status, status_date) ==
    /\ imp.pc = "idle"
    /\ \E p \in project : /\ p.project_id = selected_project
                          /\ \E a \in asset : a.asset_id = p.asset_id
    /\ new_status \in 1..Len(SeedProjectStatuses)
    /\ sqlite_sequence.project_status_history < MaxAssets + MaxStatusUpdates
    /\ LET history_id == sqlite_sequence.project_status_history + 1
       IN  /\ project_status_history' =
                {h \in project_status_history : h.project_id # selected_project} \cup
                {[history_id |-> history_id, project_id |-> selected_project,
                  project_status_id |-> new_status, status_date |-> status_date]}
           /\ sqlite_sequence' = [sqlite_sequence EXCEPT !.project_status_history = history_id]
           /\ report' = Rep("update_status", TRUE, history_id, <<>>)
    /\ UNCHANGED <<asset_class, asset_type_l4, design_status, env_status, asset,
                   criterion, priority_score, project, risk_assessment,
                   project_year_cost, today, deleting, imp, criterion_changes>>

\* status_update_form, submitted: INSERT INTO project_status_history, committed
UpdateStatus(selected_project, new_status, status_date) ==
    /\ imp.pc = "idle"
    /\ \E p \in project : /\ p.project_id = selected_project
                          /\ \E a \in asset : a.asset_id = p.asset_id
    /\ new_status \in 1..Len(SeedProjectStatuses)
    /\ sqlite_sequence.project_status_history < MaxAssets + MaxStatusUpdates
    /\ LET history_id == sqlite_sequence.project_status_history + 1
       IN  /\ project_status_history' = project_status_history \cup
                {[history_id |-> history_id, project_id |-> selected_project,
                  project_status_id |-> new_status, status_date |-> status_date]}
           /\ sqlite_sequence' = [sqlite_sequence EXCEPT !.project_status_history = history_id]
           /\ report' = Rep("update_status", TRUE, history_id, <<>>)
    /\ UNCHANGED <<asset_class, asset_type_l4, design_status, env_status, asset,
                   criterion, priority_score, project, risk_assessment,
                   project_year_cost, today, deleting, imp, criterion_changes>>

\* a day passes: date('now') and the date input's default move on
NextDay ==
    /\ imp.pc = "idle"
    /\ today < MaxDay
    /\ today' = today + 1
    /\ UNCHANGED <<tables, imp, report, criterion_changes, deleting>>

----------------------------------------------------------------------------
(* "Dashboard" page.                                                       *)

\* SUM(project_cost) over rows of project_year_cost
RECURSIVE SumOfCosts(_)
SumOfCosts(rows) ==
    IF rows = {} THEN 0
    ELSE LET y == CHOOSE x \in rows : TRUE
         IN  y.project_cost + SumOfCosts(rows \ {y})

\* COUNT(DISTINCT p.project_id) FROM project p JOIN project_status_history psh
\* JOIN project_status ps WHERE ps.status_code IN status_codes
CountWithStatus(status_codes) ==
    Cardinality({p.project_id : p \in
        {p \in project : \E psh \in project_status_history :
            /\ psh.project_id = p.project_id
            /\ SeedProjectStatuses[psh.project_status_id] \in status_codes}})

\* Opening the page: the KPIs and the budget by financial year are computed and shown.
ViewDashboard ==
    /\ imp.pc = "idle"
    /\ report' = [op |-> "view_dashboard", ok |-> TRUE, count |-> 0, errors |-> <<>>,
                  total_projects |-> Cardinality(project),
                  total_budget |-> SumOfCosts(project_year_cost),
                  active_projects |-> CountWithStatus({"IN_PROGRESS", "DESIGN"}),
                  completed_projects |-> CountWithStatus({"COMPLETED"}),
                  df_year |-> [fy \in {y.financial_year : y \in project_year_cost} |->
                                  SumOfCosts({y \in project_year_cost :
                                                y.financial_year = fy})]]
    /\ UNCHANGED <<tables, today, deleting, imp, criterion_changes>>

----------------------------------------------------------------------------
(* A new browser session: check_database_integrity.                        *)

\* PRAGMA foreign_key_check reports a row: some row references a parent that is gone
ForeignKeyViolations ==
    \/ \E t \in asset_type_l4 : \A c \in asset_class : c.asset_class_id # t.asset_class_id
    \/ \E a \in asset : \A t \in asset_type_l4 : t.asset_type_id # a.asset_type_id
    \/ \E ps \in priority_score : \A a \in asset : a.asset_id # ps.asset_id
    \/ \E p \in project :
          \/ \A a \in asset : a.asset_id # p.asset_id
          \/ \A d \in design_status : d.design_status_id # p.design_status_id
          \/ \A e \in env_status : e.env_status_id # p.env_status_id
    \/ \E y \in project_year_cost : \A p \in project : p.project_id # y.project_id
    \/ \E r \in risk_assessment : \A p \in project : p.project_id # r.project_id
    \/ \E h \in project_status_history : \A p \in project : p.project_id # h.project_id

\* When a violation is reported, the orphaned priority_score, project_year_cost and
\* risk_assessment rows are deleted and the deletion committed.
check_database_integrity ==
    /\ imp.pc = "idle"
    /\ IF ForeignKeyViolations
       THEN /\ priority_score' = {ps \in priority_score :
                                    \E a \in asset : a.asset_id = ps.asset_id}
            /\ project_year_cost' = {y \in project_year_cost :
                                       \E p \in project : p.project_id = y.project_id}
            /\ risk_assessment' = {r \in risk_assessment :
                                     \E p \in project : p.project_id = r.project_id}
            /\ report' = Rep("check_database_integrity", TRUE, 1, <<>>)
       ELSE /\ UNCHANGED <<priority_score, project_year_cost, risk_assessment>>
            /\ report' = Rep("check_database_integrity", TRUE, 0, <<>>)
    /\ UNCHANGED <<asset_class, asset_type_l4, design_status, env_status, asset, criterion,
                   project, project_status_history, sqlite_sequence, today, deleting, imp,
                   criterion_changes>>

----------------------------------------------------------------------------
(* "Reference Data" page, Criteria Weights tab.                            *)

\* the statements of one recalculate_priority_scores call that may raise: -1 for none,
\* k for the one after the k-th write
FailPoints ==
    -1 .. (Cardinality(priority_score)
             + Cardinality(JoinRows(project, asset, priority_score)))

\* the recompute that follows a committed criterion change, and what is displayed
RecalculateAfter(op, criteria, fail) ==
    LET r == recalculate_priority_scores(priority_score, project, asset, criteria, fail)
    IN  /\ priority_score' = r.db.priority_score
        /\ project' = r.db.project
        /\ report' = Rep(op, TRUE, r.updated, IF r.error THEN <<"recalculate">> ELSE <<>>)

\* add_criterion form, submitted
AddCriterion(new_criterion_name, new_weight_pct, fail) ==
    /\ imp.pc = "idle"
    /\ fail \in FailPoints
    /\ IF Strip(new_criterion_name) = <<>>
       THEN /\ report' = Rep("add_criterion", FALSE, 0, <<"required">>)
            /\ UNCHANGED <<criterion, priority_score, project, criterion_changes>>
       ELSE IF \E cr \in criterion : cr.criterion_name = Strip(new_criterion_name)
       THEN /\ report' = Rep("add_criterion", FALSE, 0, <<"exception">>)
            /\ UNCHANGED <<criterion, priority_score, project, criterion_changes>>
       ELSE /\ criterion' = criterion \cup {[criterion_name |-> Strip(new_criterion_name),
                                             weight_pct |-> new_weight_pct]}
            /\ criterion_changes' = criterion_changes + 1
            /\ RecalculateAfter("add_criterion", criterion', fail)
    /\ UNCHANGED <<asset_class, asset_type_l4, design_status, env_status, asset,
                   risk_assessment, project_year_cost, project_status_history,
                   sqlite_sequence, today, deleting, imp>>

\* edit_criterion form, submitted for the criterion sel
EditCriterion(sel, new_criterion_name, new_weight, fail) ==
    /\ imp.pc = "idle"
    /\ sel \in criterion
    /\ fail \in FailPoints
    /\ LET final_criterion_name == IF Strip(new_criterion_name) # <<>>
                                   THEN Strip(new_criterion_name) ELSE sel.criterion_name
           changes_made == \/ final_criterion_name # sel.criterion_name
                           \/ new_weight # sel.weight_pct
           exists == Cardinality({cr \in criterion :
                        /\ Lower(cr.criterion_name) = Lower(final_criterion_name)
                        /\ Lower(cr.criterion_name) # Lower(sel.criterion_name)})
       IN  IF ~changes_made
           THEN /\ report' = Rep("edit_criterion", FALSE, 0, <<"no changes">>)
                /\ UNCHANGED <<criterion, priority_score, project, criterion_changes>>
           ELSE IF exists > 0
           THEN /\ report' = Rep("edit_criterion", FALSE, 0, <<"exists">>)
                /\ UNCHANGED <<criterion, priority_score, project, criterion_changes>>
           ELSE IF \E cr \in criterion \ {sel} : cr.criterion_name = final_criterion_name
           THEN /\ report' = Rep("edit_criterion", FALSE, 0, <<"exception">>)
                /\ UNCHANGED <<criterion, priority_score, project, criterion_changes>>
           ELSE /\ criterion' = (criterion \ {sel}) \cup
                                   {[criterion_name |-> final_criterion_name,
                                     weight_pct |-> new_weight]}
                /\ criterion_changes' = criterion_changes + 1
                /\ RecalculateAfter("edit_criterion", criterion', fail)
    /\ UNCHANGED <<asset_class, asset_type_l4, design_status, env_status, asset,
                   risk_assessment, project_year_cost, project_status_history,
                   sqlite_sequence, today, deleting, imp>>

\* delete_criterion form, submitted for the criterion sel
DeleteCriterion(sel, fail) ==
    /\ imp.pc = "idle"
    /\ sel \in criterion
    /\ fail \in FailPoints
    /\ criterion' = criterion \ {sel}
    /\ criterion_changes' = criterion_changes + 1
    /\ RecalculateAfter("delete_criterion", criterion', fail)
    /\ UNCHANGED <<asset_class, asset_type_l4, design_status, env_status, asset,
                   risk_assessment, project_year_cost, project_status_history,
                   sqlite_sequence, today, deleting, imp>>

----------------------------------------------------------------------------
(* import_projects_from_spreadsheet(uploaded_file, conn, overwrite_existing).       *)
(* A spreadsheet row is a record of its cells; non_numeric names the score columns  *)
(* whose cell float() cannot convert.  The call is one position per loop iteration: *)
(* no other handler runs while the import does.                                     *)

ImportScoreColumns == {"whs_score", "water_score", "customer_score",
                       "maintenance_score", "financial_score"}

\* the rows of frame (a table read into a DataFrame) whose name equals name up to case:
\* frame[frame[col].str.lower() == str(name).lower()], .iloc[0] taking the first row
MatchLower(names_by_id, name) ==
    LET found == {id \in DOMAIN names_by_id : Lower(names_by_id[id]) = Lower(name)}
    IN  IF found = {} THEN 0 ELSE Min(found)

ClassNames(classes) ==
    [id \in {c.asset_class_id : c \in classes} |->
        (CHOOSE c \in classes : c.asset_class_id = id).class_name]
DesignStatusNames(statuses) ==
    [id \in {x.design_status_id : x \in statuses} |->
        (CHOOSE x \in statuses : x.design_status_id = id).status_name]
EnvStatusNames(statuses) ==
    [id \in {x.env_status_id : x \in statuses} |->
        (CHOOSE x \in statuses : x.env_status_id = id).status_name]

\* a faulty variant of ExistsWithoutOverwrite: the row is never refused
ExistsWithoutOverwrite_Never(existing, overwrite_existing) == FALSE

\* if existing_asset and not overwrite_existing:  the row is refused
ExistsWithoutOverwrite(existing, overwrite_existing) ==
    existing # {} /\ ~overwrite_existing

\* a faulty variant of RowLabel: the label is the 0-based index
RowLabel_ZeroBased(index) == index

\* the label of a row in the errors: f"Row {index + 1}: ..."
RowLabel(index) == index + 1

\* the five float(row[...]) conversions: one of them raises ValueError
FloatFails(row) == row.non_numeric # {}

\* the priority_score row a sheet row gives: float() keeps the sign of a number
ScoresOfRow(score_id, asset_id, row) ==
    [score_id |-> score_id, asset_id |-> asset_id,
     whs_score |-> row.whs_score, water_savings_score |-> row.water_score,
     customer_score |-> row.customer_score, maintenance_score |-> row.maintenance_score,
     financial_score |-> row.financial_score,
     total_priority_score |-> FlatTotal(row.whs_score, row.water_score, row.customer_score,
                                        row.maintenance_score, row.financial_score)]

\* a faulty variant of UpdateProject: the project is deleted and inserted anew
UpdateProject_Reinserts(projects, asset_id, row, design_status_id, env_status_id) ==
    {IF p.asset_id = asset_id
        THEN [p EXCEPT !.project_id = @ + MaxAssets, !.project_scope = row.project_scope,
                       !.design_status_id = design_status_id,
                       !.env_status_id = env_status_id, !.priority_rank = NoRank]
        ELSE p : p \in projects}

\* UPDATE project SET project_scope=?, design_status_id=?, env_status_id=?
\* WHERE asset_id=?
UpdateProject(projects, asset_id, row, design_status_id, env_status_id) ==
    {IF p.asset_id = asset_id
        THEN [p EXCEPT !.project_scope = row.project_scope,
                       !.design_status_id = design_status_id,
                       !.env_status_id = env_status_id]
        ELSE p : p \in projects}

\* a faulty variant of UpdateExisting: the priority_score row is inserted without the
\* SELECT that looks for one
UpdateExisting_Inserts(db, row, asset_id, asset_type_id, design_status_id, env_status_id) ==
    LET assets1  == {IF a.asset_id = asset_id
                        THEN [a EXCEPT !.asset_type_id = asset_type_id]
                        ELSE a : a \in db.asset}
        score_id == db.sqlite_sequence.priority_score + 1
    IN  IF FloatFails(row)
        THEN [db |-> [db EXCEPT !.asset = assets1], ok |-> FALSE]
        ELSE [db |-> [db EXCEPT !.asset = assets1,
                                !.priority_score =
                                    @ \cup {ScoresOfRow(score_id, asset_id, row)},
                                !.project = UpdateProject(@, asset_id, row,
                                                          design_status_id, env_status_id),
                                !.sqlite_sequence.priority_score = score_id],
              ok |-> TRUE]

\* if existing_asset and overwrite_existing:  the asset is updated, its priority_score
\* updated or inserted, its project updated.  db: the tables as the row's earlier
\* statements left them.  ok: no statement raised.
UpdateExisting(db, row, asset_id, asset_type_id, design_status_id, env_status_id) ==
    LET assets1  == {IF a.asset_id = asset_id
                        THEN [a EXCEPT !.asset_type_id = asset_type_id]
                        ELSE a : a \in db.asset}
        has      == \E ps \in db.priority_score : ps.asset_id = asset_id
        score_id == db.sqlite_sequence.priority_score + 1
        scores1  == IF has
                    THEN {IF ps.asset_id = asset_id
                             THEN ScoresOfRow(ps.score_id, asset_id, row)
                             ELSE ps : ps \in db.priority_score}
                    ELSE db.priority_score \cup {ScoresOfRow(score_id, asset_id, row)}
        projects1 == UpdateProject(db.project, asset_id, row, design_status_id,
                                   env_status_id)
    IN  IF FloatFails(row)
        THEN [db |-> [db EXCEPT !.asset = assets1], ok |-> FALSE]
        ELSE [db |-> [db EXCEPT !.asset = assets1, !.priority_score = scores1,
                                !.project = projects1,
                                !.sqlite_sequence.priority_score =
                                    IF has THEN @ ELSE score_id],
              ok |-> TRUE]

\* else:  the asset, its priority_score, its project and the project's first
\* project_status_history row are inserted
CreateNew(db, row, asset_type_id, design_status_id, env_status_id) ==
    LET asset_id   == db.sqlite_sequence.asset + 1
        score_id   == db.sqlite_sequence.priority_score + 1
        project_id == db.sqlite_sequence.project + 1
        history_id == db.sqlite_sequence.project_status_history + 1
        assets1    == db.asset \cup {[asset_id |-> asset_id, asset_code |-> row.asset_code,
                                       asset_type_id |-> asset_type_id]}
    IN  IF FloatFails(row)
        THEN [db |-> [db EXCEPT !.asset = assets1, !.sqlite_sequence.asset = asset_id],
              ok |-> FALSE]
        ELSE [db |-> [db EXCEPT
                !.asset = assets1,
                !.priority_score = @ \cup {ScoresOfRow(score_id, asset_id, row)},
                !.project = @ \cup
                   {[project_id |-> project_id, asset_id |-> asset_id,
                     project_scope |-> row.project_scope,
                     design_status_id |-> design_status_id,
                     env_status_id |-> env_status_id, priority_rank |-> NoRank]},
                !.project_status_history = @ \cup {InitialStatus(history_id, project_id)},
                !.sqlite_sequence = [@ EXCEPT
                     !.asset = asset_id, !.priority_score = score_id,
                     !.project = project_id, !.project_status_history = history_id]],
              ok |-> TRUE]

\* One iteration of  for index, row in df.iterrows():  the tables as the connection
\* sees them afterwards, whether imported_count grew, and the error appended, if any.
ProcessRow(row, index) ==
    LET same       == [asset_class |-> asset_class, asset_type_l4 |-> asset_type_l4,
                       asset |-> asset, priority_score |-> priority_score,
                       project |-> project,
                       project_status_history |-> project_status_history,
                       sqlite_sequence |-> sqlite_sequence]
        existing   == {a \in asset : a.asset_code = row.asset_code}
        matched    == MatchLower(ClassNames(imp.asset_classes), row.asset_class)
        unique_err == matched = 0 /\ \E c \in asset_class : c.class_name = row.asset_class
        class_id   == IF matched # 0 THEN matched ELSE sqlite_sequence.asset_class + 1
        classes1   == IF matched # 0 THEN asset_class
                      ELSE asset_class \cup {[asset_class_id |-> class_id,
                                              class_name |-> row.asset_class]}
        ty         == GetOrCreateType(asset_type_l4, sqlite_sequence.asset_type_l4,
                                      row.asset_type, class_id)
        ds_match   == MatchLower(DesignStatusNames(imp.design_statuses), row.design_status)
        design_id  == IF ds_match # 0 THEN ds_match ELSE 1
        es_match   == MatchLower(EnvStatusNames(imp.env_statuses), row.env_status)
        env_id     == IF es_match # 0 THEN es_match ELSE 1
        seq1       == [sqlite_sequence EXCEPT !.asset_class = IF matched # 0 THEN @ ELSE class_id,
                                              !.asset_type_l4 = ty.last_id]
        refs       == [same EXCEPT !.asset_class = classes1,
                                   !.asset_type_l4 = ty.asset_type_l4,
                                   !.sqlite_sequence = seq1]
        Err(kind)  == <<[row |-> RowLabel(index), kind |-> kind,
                         asset_code |-> row.asset_code]>>
        Outcome(r) == [db |-> r.db, imported |-> IF r.ok THEN 1 ELSE 0,
                       error |-> IF r.ok THEN <<>> ELSE Err("exception")]
    IN  IF ExistsWithoutOverwrite(existing, imp.overwrite_existing)
        THEN [db |-> same, imported |-> 0, error |-> Err("exists")]
        ELSE IF unique_err
        THEN [db |-> same, imported |-> 0, error |-> Err("exception")]
        ELSE IF existing # {}
        THEN Outcome(UpdateExisting(refs, row, (CHOOSE a \in existing : TRUE).asset_id,
                                    ty.asset_type_id, design_id, env_id))
        ELSE Outcome(CreateNew(refs, row, ty.asset_type_id, design_id, env_id))

\* The call, up to the loop: the file is read, the required columns checked, the
\* reference tables read into DataFrames.
ImportStart(rows, overwrite_existing, has_required_columns) ==
    /\ imp.pc = "idle"
    /\ Len(rows) <= MaxBatch
    /\ sqlite_sequence.asset
         + Cardinality({rows[i].asset_code : i \in 1..Len(rows)}
                         \ {a.asset_code : a \in asset}) <= MaxAssets
    /\ sqlite_sequence.asset_type_l4 + Len(rows) <= MaxTypes
    /\ sqlite_sequence.asset_class
         + Cardinality({i \in 1..Len(rows) :
                          \A c \in asset_class : c.class_name # rows[i].asset_class})
         <= Len(SeedAssetClasses) + MaxRefAdds
    /\ IF ~has_required_columns
       THEN /\ report' = Rep("import", FALSE, 0, <<"File processing error">>)
            /\ imp' = imp
       ELSE /\ imp' = [pc |-> "rows", rows |-> rows, index |-> 0,
                       overwrite_existing |-> overwrite_existing,
                       asset_classes |-> asset_class, design_statuses |-> design_status,
                       env_statuses |-> env_status, imported_count |-> 0, errors |-> <<>>]
            /\ report' = Rep("import", TRUE, 0, <<>>)
    /\ UNCHANGED <<tables, today, deleting, criterion_changes>>

\* a faulty variant of ImportRow: the loop is left at the first row that fails
ImportRow_StopsAtError ==
    /\ imp.pc = "rows"
    /\ imp.index < Len(imp.rows)
    /\ LET r == ProcessRow(imp.rows[imp.index + 1], imp.index)
       IN  /\ asset_class' = r.db.asset_class
           /\ asset_type_l4' = r.db.asset_type_l4
           /\ asset' = r.db.asset
           /\ priority_score' = r.db.priority_score
           /\ project' = r.db.project
           /\ project_status_history' = r.db.project_status_history
           /\ sqlite_sequence' = r.db.sqlite_sequence
           /\ imp' = [imp EXCEPT !.index = IF r.error = <<>> THEN @ + 1 ELSE Len(imp.rows),
                                 !.imported_count = @ + r.imported,
                                 !.errors = @ \o r.error]
    /\ UNCHANGED <<design_status, env_status, criterion, risk_assessment,
                   project_year_cost, today, deleting, report, criterion_changes>>

\* one loop iteration
ImportRow ==
    /\ imp.pc = "rows"
    /\ imp.index < Len(imp.rows)
    /\ LET r == ProcessRow(imp.rows[imp.index + 1], imp.index)
       IN  /\ asset_class' = r.db.asset_class
           /\ asset_type_l4' = r.db.asset_type_l4
           /\ asset' = r.db.asset
           /\ priority_score' = r.db.priority_score
           /\ project' = r.db.project
           /\ project_status_history' = r.db.project_status_history
           /\ sqlite_sequence' = r.db.sqlite_sequence
           /\ imp' = [imp EXCEPT !.index = @ + 1,
                                 !.imported_count = @ + r.imported,
                                 !.errors = @ \o r.error]
    /\ UNCHANGED <<design_status, env_status, criterion, risk_assessment,
                   project_year_cost, today, deleting, report, criterion_changes>>

\* after the loop: conn.commit(); return imported_count, errors
ImportFinish ==
    /\ imp.pc = "rows"
    /\ imp.index = Len(imp.rows)
    /\ report' = Rep("import", TRUE, imp.imported_count, imp.errors)
    /\ imp' = Idle
    /\ UNCHANGED <<tables, today, deleting, criterion_changes>>

----------------------------------------------------------------------------
(* "Reference Data" page, Asset Classes and Asset Types tabs.              *)

\* add_asset_class form, submitted
AddAssetClass(new_class) ==
    /\ imp.pc = "idle"
    /\ sqlite_sequence.asset_class < Len(SeedAssetClasses) + MaxRefAdds
    /\ IF Strip(new_class) = <<>>
       THEN /\ report' = Rep("add_asset_class", FALSE, 0, <<"required">>)
            /\ UNCHANGED <<asset_class, sqlite_sequence>>
       ELSE IF \E c \in asset_class : c.class_name = Strip(new_class)
       THEN /\ report' = Rep("add_asset_class", FALSE, 0, <<"exception">>)
            /\ UNCHANGED <<asset_class, sqlite_sequence>>
       ELSE LET id == sqlite_sequence.asset_class + 1
            IN  /\ asset_class' = asset_class \cup
                      {[asset_class_id |-> id, class_name |-> Strip(new_class)]}
                /\ sqlite_sequence' = [sqlite_sequence EXCEPT !.asset_class = id]
                /\ report' = Rep("add_asset_class", TRUE, id, <<>>)
    /\ UNCHANGED <<asset_type_l4, design_status, env_status, asset, criterion,
                   priority_score, project, risk_assessment, project_year_cost,
                   project_status_history, today, deleting, imp, criterion_changes>>

\* edit_asset_class form, submitted for the class named selected_class
EditAssetClass(selected_class, new_name) ==
    /\ imp.pc = "idle"
    /\ \E c \in asset_class : c.class_name = selected_class
    /\ LET exists == Cardinality({c \in asset_class :
                        /\ Lower(c.class_name) = Lower(Strip(new_name))
                        /\ Lower(c.class_name) # Lower(selected_class)})
       IN  IF Strip(new_name) = <<>>
           THEN /\ report' = Rep("edit_asset_class", FALSE, 0, <<"required">>)
                /\ UNCHANGED asset_class
           ELSE IF Strip(new_name) = selected_class
           THEN /\ report' = Rep("edit_asset_class", FALSE, 0, <<"no changes">>)
                /\ UNCHANGED asset_class
           ELSE IF exists > 0
           THEN /\ report' = Rep("edit_asset_class", FALSE, 0, <<"exists">>)
                /\ UNCHANGED asset_class
           ELSE IF \E c \in asset_class : c.class_name = Strip(new_name)
           THEN /\ report' = Rep("edit_asset_class", FALSE, 0, <<"exception">>)
                /\ UNCHANGED asset_class
           ELSE /\ asset_class' = {IF c.class_name = selected_class
                                      THEN [c EXCEPT !.class_name = Strip(new_name)]
                                      ELSE c : c \in asset_class}
                /\ report' = Rep("edit_asset_class", TRUE, 0, <<>>)
    /\ UNCHANGED <<asset_type_l4, design_status, env_status, asset, criterion,
                   priority_score, project, risk_assessment, project_year_cost,
                   project_status_history, sqlite_sequence, today, deleting, imp,
                   criterion_changes>>

\* a faulty variant of AssetsOfClassNamed: the asset types that carry the class's name
\* are counted instead of the class's asset types
AssetsOfClassNamed_ByTypeName(class_name) ==
    Cardinality({a \in asset :
        \E t \in asset_type_l4 : /\ t.asset_type_id = a.asset_type_id
                                  /\ t.type_name = class_name})

\* SELECT COUNT(*) FROM asset a JOIN asset_type_l4 at JOIN asset_class ac
\* WHERE ac.class_name = ?
AssetsOfClassNamed(class_name) ==
    Cardinality({a \in asset :
        \E t \in asset_type_l4 :
            /\ t.asset_type_id = a.asset_type_id
            /\ \E c \in asset_class : /\ c.asset_class_id = t.asset_class_id
                                      /\ c.class_name = class_name})

\* delete_asset_class form, submitted for the class named selected_class_delete
DeleteAssetClass(selected_class_delete) ==
    /\ imp.pc = "idle"
    /\ \E c \in asset_class : c.class_name = selected_class_delete
    /\ LET count == AssetsOfClassNamed(selected_class_delete)
       IN  IF count > 0
           THEN /\ report' = Rep("delete_asset_class", FALSE, count, <<"in use">>)
                /\ UNCHANGED asset_class
           ELSE /\ asset_class' = {c \in asset_class : c.class_name # selected_class_delete}
                /\ report' = Rep("delete_asset_class", TRUE, 0, <<>>)
    /\ UNCHANGED <<asset_type_l4, design_status, env_status, asset, criterion,
                   priority_score, project, risk_assessment, project_year_cost,
                   project_status_history, sqlite_sequence, today, deleting, imp,
                   criterion_changes>>

\* The same submission in a second browser session, whose script runs in a thread of
\* its own on a connection of its own: the SELECT COUNT(*) first.  The SELECT opens no
\* transaction, so the session holds no lock once the count is fetched.
DeleteAssetClassCount(selected_class_delete) ==
    /\ imp.pc = "idle"
    /\ deleting.pc = "idle"
    /\ \E c \in asset_class : c.class_name = selected_class_delete
    /\ LET count == AssetsOfClassNamed(selected_class_delete)
       IN  IF count > 0
           THEN /\ report' = Rep("delete_asset_class", FALSE, count, <<"in use">>)
                /\ deleting' = deleting
           ELSE /\ report' = report
                /\ deleting' = [pc |-> "counted",
                                selected_class_delete |-> selected_class_delete]
    /\ UNCHANGED <<tables, today, imp, criterion_changes>>

\* ... and then its else branch: DELETE FROM asset_class WHERE class_name = ?, committed
DeleteAssetClassDelete ==
    /\ imp.pc = "idle"
    /\ deleting.pc = "counted"
    /\ asset_class' = {c \in asset_class : c.class_name # deleting.selected_class_delete}
    /\ report' = Rep("delete_asset_class", TRUE, 0, <<>>)
    /\ deleting' = NotDeleting
    /\ UNCHANGED <<asset_type_l4, design_status, env_status, asset, criterion,
                   priority_score, project, risk_assessment, project_year_cost,
                   project_status_history, sqlite_sequence, today, imp,
                   criterion_changes>>

\* add_asset_type form, submitted
AddAssetType(selected_class_id, new_type) ==
    /\ imp.pc = "idle"
    /\ selected_class_id \in {c.asset_class_id : c \in asset_class}
    /\ sqlite_sequence.asset_type_l4 < MaxTypes
    /\ IF Strip(new_type) = <<>>
       THEN /\ report' = Rep("add_asset_type", FALSE, 0, <<"required">>)
            /\ UNCHANGED <<asset_type_l4, sqlite_sequence>>
       ELSE LET id == sqlite_sequence.asset_type_l4 + 1
            IN  /\ asset_type_l4' = asset_type_l4 \cup
                      {[asset_type_id |-> id, asset_class_id |-> selected_class_id,
                        type_name |-> Strip(new_type)]}
                /\ sqlite_sequence' = [sqlite_sequence EXCEPT !.asset_type_l4 = id]
                /\ report' = Rep("add_asset_type", TRUE, id, <<>>)
    /\ UNCHANGED <<asset_class, design_status, env_status, asset, criterion,
                   priority_score, project, risk_assessment, project_year_cost,
                   project_status_history, today, deleting, imp, criterion_changes>>

\* the types the Asset Types tab lists: asset_type_l4 JOIN asset_class
ListedTypes ==
    {t \in asset_type_l4 : \E c \in asset_class : c.asset_class_id = t.asset_class_id}

\* edit_asset_type form, submitted for the listed type sel
EditAssetType(sel, new_class_id, new_type_name) ==
    /\ imp.pc = "idle"
    /\ sel \in ListedTypes
    /\ new_class_id \in {c.asset_class_id : c \in asset_class}
    /\ LET exists == Cardinality({t \in asset_type_l4 :
                        /\ Lower(t.type_name) = Lower(Strip(new_type_name))
                        /\ t.asset_class_id = new_class_id
                        /\ t.asset_type_id # sel.asset_type_id})
       IN  IF Strip(new_type_name) = <<>>
           THEN /\ report' = Rep("edit_asset_type", FALSE, 0, <<"required">>)
                /\ UNCHANGED asset_type_l4
           ELSE IF Strip(new_type_name) = sel.type_name /\ new_class_id = sel.asset_class_id
           THEN /\ report' = Rep("edit_asset_type", FALSE, 0, <<"no changes">>)
                /\ UNCHANGED asset_type_l4
           ELSE IF exists > 0
           THEN /\ report' = Rep("edit_asset_type", FALSE, 0, <<"exists">>)
                /\ UNCHANGED asset_type_l4
           ELSE /\ asset_type_l4' = (asset_type_l4 \ {sel}) \cup
                      {[sel EXCEPT !.type_name = Strip(new_type_name),
                                   !.asset_class_id = new_class_id]}
                /\ report' = Rep("edit_asset_type", TRUE, 0, <<>>)
    /\ UNCHANGED <<asset_class, design_status, env_status, asset, criterion,
                   priority_score, project, risk_assessment, project_year_cost,
                   project_status_history, sqlite_sequence, today, deleting, imp,
                   criterion_changes>>

\* delete_asset_type form, submitted for the listed type sel
DeleteAssetType(sel) ==
    /\ imp.pc = "idle"
    /\ sel \in ListedTypes
    /\ LET count == Cardinality({a \in asset : a.asset_type_id = sel.asset_type_id})
       IN  IF count > 0
           THEN /\ report' = Rep("delete_asset_type", FALSE, count, <<"in use">>)
                /\ UNCHANGED asset_type_l4
           ELSE /\ asset_type_l4' = asset_type_l4 \ {sel}
                /\ report' = Rep("delete_asset_type", TRUE, 0, <<>>)
    /\ UNCHANGED <<asset_class, design_status, env_status, asset, criterion,
                   priority_score, project, risk_assessment, project_year_cost,
                   project_status_history, sqlite_sequence, today, deleting, imp,
                   criterion_changes>>

----------------------------------------------------------------------------
(* Inputs: what the forms' widgets and the spreadsheet cells may hold.     *)

AllCodes == <<"CD-2-001", "CD-2-002", "PS-1-001", "PS-1-002">>
\* as many asset codes as assets may be created
CodePool == {AllCodes[i] : i \in 1..MaxAssets}

\* <<whs, water savings, customer, maintenance, financial>>, within the sliders' ranges
ScoreVectors == {<<8, 5, 7, 9, 6>>, <<0, 20, 0, 10, 10>>}

Form(asset_code, asset_class_id, comments, project_scope, design_status_id, v) ==
    [asset_code |-> asset_code, asset_class_id |-> asset_class_id, comments |-> comments,
     project_scope |-> project_scope, design_status_id |-> design_status_id,
     env_status_id |-> 1, whs_score |-> v[1], water_score |-> v[2],
     customer_score |-> v[3], maintenance_score |-> v[4], financial_score |-> v[5]]

SheetRow(asset_code, class_name, type_name, status_name, v, non_numeric) ==
    [asset_code |-> asset_code, asset_class |-> class_name, asset_type |-> type_name,
     project_scope |-> "Pump upgrade", design_status |-> status_name,
     env_status |-> Pending, whs_score |-> v[1], water_score |-> v[2],
     customer_score |-> v[3], maintenance_score |-> v[4], financial_score |-> v[5],
     non_numeric |-> non_numeric]

\* the spreadsheets of at most MaxSheetRows rows over a set of rows
Sheets(rows) == UNION {[1..n -> rows] : n \in 0..MaxSheetRows}

----------------------------------------------------------------------------
(* Spec: projects, scores, criteria and ranks, with no failing statement.  *)

ScoringForms ==
    {Form(code, 5, General, "Deck replacement", 1, v) :
        code \in CodePool \cup {""}, v \in ScoreVectors}

\* the edit form keeps what it shows of project sel, but for the scores
EditForms(sel) ==
    {Form((CHOOSE a \in asset : a.asset_id = sel.asset_id).asset_code, 5, General,
          sel.project_scope, sel.design_status_id, v) : v \in ScoreVectors}

NewCriterionNames == {WaterSafety, roi_lc, Risk_padded, Empty}
EditCriterionNames == {Empty, LifeCost}
NewWeights == {25}

Next ==
    \/ \E f \in ScoringForms : NewProject(f)
    \/ \E sel \in project : \E f \in EditForms(sel) : EditProject(sel, f)
    \/ \E sel \in project : DeleteProject(sel)
    \/ ViewPriorityScoring
    \/ \E name \in NewCriterionNames, w \in NewWeights :
          criterion_changes < MaxCriterionChanges /\ AddCriterion(name, w, -1)
    \/ \E sel \in criterion, name \in EditCriterionNames :
          \E w \in NewWeights \cup {sel.weight_pct} :
             criterion_changes < MaxCriterionChanges /\ EditCriterion(sel, name, w, -1)
    \/ \E sel \in criterion :
          criterion_changes < MaxCriterionChanges /\ DeleteCriterion(sel, -1)

Spec == Init /\ [][Next]_vars

----------------------------------------------------------------------------
(* SpecRisk: one project, and the risk assessments recorded for it.        *)

RiskForms == {Form(AllCodes[1], 5, General, "Deck replacement", 1, <<8, 5, 7, 9, 6>>)}

NextRisk ==
    \/ \E f \in RiskForms : NewProject(f)
    \/ \E p \in project, c \in 1..Len(SeedConsequences), l \in 1..Len(SeedLikelihoods) :
          AddRiskAssessment(p.project_id, c, l)

SpecRisk == Init /\ [][NextRisk]_vars

\* the severity of a rating, for comparing bands
Severity(rating) ==
    CASE rating = "Low" -> 1
      [] rating = "Moderate" -> 2
      [] rating = "High" -> 3
      [] rating = "Extreme" -> 4
      [] OTHER -> 0

\* the band the specification gives a sum
BandOfSum(sum) ==
    IF sum <= 3 THEN "Low"
    ELSE IF sum \in 4..6 THEN "Moderate"
    ELSE IF sum \in 7..9 THEN "High"
    ELSE "Extreme"

ConsequenceScores == {SeedConsequences[i].score : i \in 1..Len(SeedConsequences)}
LikelihoodScores == {SeedLikelihoods[i].score : i \in 1..Len(SeedLikelihoods)}

\* C1: every persisted risk rating is the band of consequence score + likelihood
\* score (<= 3 Low, 4..6 Moderate, 7..9 High, >= 10 Extreme); over all scores 1..5
\* and 1..6 the rating depends only on the sum, never drops in severity as the sum
\* grows, and is one of Low, Moderate, High, Extreme.
C1_RiskBands ==
    /\ ConsequenceScores = 1..5
    /\ LikelihoodScores = 1..6
    /\ \A r \in risk_assessment :
          r.risk_rating = BandOfSum(SeedConsequences[r.consequence_id].score
                                      + SeedLikelihoods[r.likelihood_id].score)
    /\ \A c1, c2 \in ConsequenceScores : \A l1, l2 \in LikelihoodScores :
          /\ RiskRating(c1, l1) \in {"Low", "Moderate", "High", "Extreme"}
          /\ (c1 + l1 = c2 + l2) => RiskRating(c1, l1) = RiskRating(c2, l2)
          /\ (c1 + l1 <= c2 + l2) =>
                Severity(RiskRating(c1, l1)) <= Severity(RiskRating(c2, l2))

\* C1 happens: a Catastrophic / Almost Certain assessment (5 + 6) was stored as
\* Extreme and a Low / Rare one (1 + 1) as Low
C1_Witness ==
    /\ \E r \in risk_assessment :
          /\ SeedConsequences[r.consequence_id].score = 5
          /\ SeedLikelihoods[r.likelihood_id].score = 6
          /\ r.risk_rating = "Extreme"
    /\ \E r \in risk_assessment :
          /\ SeedConsequences[r.consequence_id].score = 1
          /\ SeedLikelihoods[r.likelihood_id].score = 1
          /\ r.risk_rating = "Low"

----------------------------------------------------------------------------
(* SpecCreate: projects created by the form and by spreadsheet imports,    *)
(* under criterion tables that differ.                                     *)

CreateSheetRows ==
    {SheetRow(code, Channels, General, Approved, <<0, 20, 0, 10, 10>>, {}) :
        code \in CodePool}

NextCreate ==
    \/ \E f \in ScoringForms : NewProject(f)
    \/ \E sel \in project : DeleteProject(sel)
    \/ \E sel \in criterion :
          criterion_changes < MaxCriterionChanges /\ DeleteCriterion(sel, -1)
    \/ \E rows \in Sheets(CreateSheetRows), overwrite_existing \in BOOLEAN,
          has_required_columns \in BOOLEAN :
          ImportStart(rows, overwrite_existing, has_required_columns)
    \/ ImportRow
    \/ ImportFinish

SpecCreate == Init /\ [][NextCreate]_vars

\* asset_id has exactly one score row in scores; it holds the components v and, as its
\* total, their plain sum
StoredFlat(scores, asset_id, v) ==
    /\ Cardinality({ps \in scores : ps.asset_id = asset_id}) = 1
    /\ \A ps \in scores :
          ps.asset_id = asset_id =>
             /\ <<ps.whs_score, ps.water_savings_score, ps.customer_score,
                  ps.maintenance_score, ps.financial_score>> = v
             /\ ps.total_priority_score = (v[1] + v[2] + v[3] + v[4] + v[5]) * TotalUnit

\* C2: a project created by new_project_form, or by an import row whose asset code is
\* new, gets a score row whose total is exactly whs + water + customer + maintenance
\* + financial of the submitted input, whatever the criterion table holds.
C2_FlatTotalOnCreate ==
    [][/\ \A f \in ScoringForms :
             NewProject(f) =>
                \A p \in project' \ project :
                   StoredFlat(priority_score', p.asset_id,
                              <<f.whs_score, f.water_score, f.customer_score,
                                f.maintenance_score, f.financial_score>>)
       /\ ImportRow =>
             LET row == imp.rows[imp.index + 1]
             IN  \A p \in project' \ project :
                    StoredFlat(priority_score', p.asset_id,
                               <<row.whs_score, row.water_score, row.customer_score,
                                 row.maintenance_score, row.financial_score>>)
      ]_vars

\* C2 happens: with a criterion table that is not the seeded one, CD-2-001 was created
\* by the form with 8, 5, 7, 9, 6 and stores 35, and another project was created by
\* an import row with 0, 20, 0, 10, 10 and stores 40
C2_Witness ==
    /\ criterion # {SeedCriteria[i] : i \in 1..Len(SeedCriteria)}
    /\ \E p \in project, a \in asset :
          /\ a.asset_id = p.asset_id
          /\ a.asset_code = "CD-2-001"
          /\ p.project_scope = "Deck replacement"
          /\ StoredFlat(priority_score, a.asset_id, <<8, 5, 7, 9, 6>>)
          /\ \E ps \in priority_score :
                ps.asset_id = a.asset_id /\ ps.total_priority_score = 35 * TotalUnit
    /\ \E p \in project :
          /\ p.project_scope = "Pump upgrade"
          /\ StoredFlat(priority_score, p.asset_id, <<0, 20, 0, 10, 10>>)

----------------------------------------------------------------------------
(* Claims on the weighted recompute, under Spec.                           *)

CriterionOps == {"add_criterion", "edit_criterion", "delete_criterion"}

\* the last handler committed a criterion change and ran the recompute after it
RecomputeRan == report.op \in CriterionOps /\ report.ok

\* the bucket rules in the order the specification lists them
BucketRules == <<[keys |-> {K_WHS, K_SAFETY},           bucket |-> "whs_score"],
                 [keys |-> {K_WATER},                   bucket |-> "water_savings_score"],
                 [keys |-> {K_CUSTOMER},                bucket |-> "customer_score"],
                 [keys |-> {K_MAINTENANCE},             bucket |-> "maintenance_score"],
                 [keys |-> {K_FINANCIAL, K_COST, K_ROI}, bucket |-> "financial_score"]>>

\* the rules a criterion name matches
MatchingRules(criterion_name) ==
    {i \in 1..Len(BucketRules) :
        \E key \in BucketRules[i].keys : Contains(Upper(criterion_name), key)}

\* bucket_value * weight_pct / 100 in units of 1 / TotalUnit: the bucket of the first
\* matching rule, or the average of the five components when no rule matches
ExpectedContribution(cr, ps) ==
    LET rules == MatchingRules(cr.criterion_name)
    IN  IF rules # {}
        THEN ps[BucketRules[Min(rules)].bucket] * cr.weight_pct * (TotalUnit \div 100)
        ELSE ((ps.whs_score + ps.water_savings_score + ps.customer_score
                 + ps.maintenance_score + ps.financial_score)
               * cr.weight_pct * (TotalUnit \div 100)) \div 5

RECURSIVE ExpectedTotal(_, _)
ExpectedTotal(criteria, ps) ==
    IF criteria = {} THEN 0
    ELSE LET cr == CHOOSE x \in criteria : TRUE
         IN  ExpectedContribution(cr, ps) + ExpectedTotal(criteria \ {cr}, ps)

RankedIn(projects, assets) == {p \in projects : \E a \in assets : a.asset_id = p.asset_id}
RankedProjects == RankedIn(project, asset)

\* the stored total of the asset of project p
TotalIn(scores, p) ==
    (CHOOSE ps \in scores : ps.asset_id = p.asset_id).total_priority_score
TotalOf(p) == TotalIn(priority_score, p)

\* the ranks are 1..N without gap or duplicate, follow the totals downwards, and rank 1
\* goes with the largest total
RanksFollowTotalsIn(projects, assets, scores) ==
    LET ranked == RankedIn(projects, assets)
    IN  /\ \A p \in ranked : \E ps \in scores : ps.asset_id = p.asset_id
        /\ {p.priority_rank : p \in ranked} = 1..Cardinality(ranked)
        /\ \A p, q \in ranked :
              p.priority_rank < q.priority_rank => TotalIn(scores, p) >= TotalIn(scores, q)
        /\ \A p \in ranked :
              p.priority_rank = 1 =>
                 \A q \in ranked : TotalIn(scores, q) <= TotalIn(scores, p)
RanksFollowTotals == RanksFollowTotalsIn(project, asset, priority_score)

\* C4, as stated: after any weighted recompute (any run of recalculate_priority_scores
\* that reports no error) the ranks of the N projects are exactly 1..N, descending by
\* total, rank 1 on the largest total.
C4_AsStated == RecomputeRan => RanksFollowTotals

\* C4, amended: after a weighted recompute run with at least one criterion configured,
\* and after the rank update of the Priority Scoring page, the ranks of the N projects
\* are exactly 1..N, descending by total, rank 1 on the largest total.
C4_RanksAfterRecompute ==
    (\/ RecomputeRan /\ criterion # {}
     \/ report.op = "view_priority_scoring") => RanksFollowTotals

\* C4 happens: a recompute ran over two projects and ranked the later one first
C4_Witness ==
    /\ RecomputeRan
    /\ criterion # {}
    /\ \E p, q \in project :
          /\ p.project_id < q.project_id
          /\ p.priority_rank = 2
          /\ q.priority_rank = 1
          /\ TotalOf(q) > TotalOf(p)

\* C5: a second run of the weighted recompute, with criteria and component scores
\* unchanged, leaves every total and every rank as the first run left them; in
\* particular, right after a handler ran the recompute, one more run changes nothing.
C5_RecomputeIdempotent ==
    LET now   == [priority_score |-> priority_score, project |-> project]
        once  == recalculate_priority_scores(priority_score, project, asset,
                                             criterion, -1).db
        twice == recalculate_priority_scores(once.priority_score, once.project, asset,
                                             criterion, -1).db
    IN  /\ twice = once
        /\ RecomputeRan => once = now

\* C5 happens: a recompute ran over two projects and replaced a flat total
C5_Witness ==
    /\ RecomputeRan
    /\ criterion # {}
    /\ Cardinality(RankedProjects) >= 2
    /\ \E ps \in priority_score :
          ps.total_priority_score #
             FlatTotal(ps.whs_score, ps.water_savings_score, ps.customer_score,
                       ps.maintenance_score, ps.financial_score)

\* C6: the recompute that runs once the last criterion is deleted reports zero rows
\* updated and no error, and leaves every total and every rank as it was.
C6_EmptyTableNoOp ==
    [][(criterion # {} /\ criterion' = {}) =>
          /\ report' = Rep("delete_criterion", TRUE, 0, <<>>)
          /\ priority_score' = priority_score
          /\ project' = project]_vars

\* C6 happens: the last criterion was deleted while a project stored the flat total 35
\* and had no rank yet
C6_Witness ==
    /\ criterion = {}
    /\ report = Rep("delete_criterion", TRUE, 0, <<>>)
    /\ \E p \in project :
          /\ p.priority_rank = NoRank
          /\ TotalOf(p) = 35 * TotalUnit

----------------------------------------------------------------------------
(* SpecFault: the criterion handlers, with a statement of the recompute    *)
(* that may raise.                                                         *)

\* a recompute over n score rows and m ranked projects writes n + m times
FaultPoints == -1 .. (2 * MaxAssets)

NextFault ==
    \/ \E f \in ScoringForms : NewProject(f)
    \/ ViewPriorityScoring
    \/ \E name \in NewCriterionNames, w \in NewWeights, fail \in FaultPoints :
          criterion_changes < MaxCriterionChanges /\ AddCriterion(name, w, fail)
    \/ \E sel \in criterion, name \in EditCriterionNames, fail \in FaultPoints :
          \E w \in NewWeights \cup {sel.weight_pct} :
             criterion_changes < MaxCriterionChanges /\ EditCriterion(sel, name, w, fail)
    \/ \E sel \in criterion, fail \in FaultPoints :
          criterion_changes < MaxCriterionChanges /\ DeleteCriterion(sel, fail)

SpecFault == Init /\ [][NextFault]_vars

\* every total is the weighted sum under the configured criteria, and the ranks follow
AllRecomputed(criteria, projects, assets, scores) ==
    /\ \A ps \in scores : ps.total_priority_score = ExpectedTotal(criteria, ps)
    /\ RanksFollowTotalsIn(projects, assets, scores)

----------------------------------------------------------------------------
(* Claims on the import, under SpecCreate.                                 *)

\* C10: an import row whose asset_code equals, letter for letter, that of an existing
\* asset, in a call without overwrite, appends an error naming the row and the code,
\* is not counted as imported, and leaves every table as it was before the row.
C10_ExistingCodeRefused ==
    [][(/\ imp.pc = "rows"
        /\ imp'.pc = "rows"
        /\ imp'.index = imp.index + 1
        /\ ~imp.overwrite_existing
        /\ \E a \in asset : a.asset_code = imp.rows[imp.index + 1].asset_code) =>
          /\ imp'.errors = imp.errors \o
                <<[row |-> imp.index + 1, kind |-> "exists",
                   asset_code |-> imp.rows[imp.index + 1].asset_code]>>
          /\ imp'.imported_count = imp.imported_count
          /\ UNCHANGED tables]_vars

\* C10 happens: the second row of a batch was refused for the code CD-2-001, which an
\* asset holds, and the batch's first row was imported
C10_Witness ==
    /\ imp.pc = "rows"
    /\ ~imp.overwrite_existing
    /\ imp.index = 2
    /\ imp.imported_count = 1
    /\ imp.errors = <<[row |-> 2, kind |-> "exists", asset_code |-> "CD-2-001"]>>
    /\ \E a \in asset : a.asset_code = "CD-2-001"

----------------------------------------------------------------------------
(* SpecRef: reference names, as imports, the project form and the          *)
(* Reference Data page write them.                                         *)

\* <<asset_class, asset_type, design_status>> cells of a spreadsheet row
RefCells == {<<Tunnels, General, approved_lc>>,
             <<TUNNELS_uc, general_lc, Deferred>>}

RefSheetRows ==
    {SheetRow(code, cells[1], cells[2], cells[3], <<8, 5, 7, 9, 6>>, {}) :
        code \in CodePool, cells \in RefCells}

RefForms == {Form(AllCodes[1], 5, comments, "Deck replacement", 1, <<8, 5, 7, 9, 6>>) :
                comments \in {General, general_lc}}

\* the edit form keeps what it shows of project sel, but for the comments (the type name)
RefEditForms(sel) ==
    {Form((CHOOSE a \in asset : a.asset_id = sel.asset_id).asset_code, 5, comments,
          sel.project_scope, sel.design_status_id, <<8, 5, 7, 9, 6>>) :
        comments \in {General, general_lc}}

NewClassNames == {channels_lc, Empty}
NewTypeNames == {general_lc}

\* the seeded criterion table
InitRef == Init /\ criterion = {SeedCriteria[i] : i \in 1..Len(SeedCriteria)}

NextRef ==
    \/ \E f \in RefForms : NewProject(f)
    \/ \E sel \in project : \E f \in RefEditForms(sel) : EditProject(sel, f)
    \/ \E rows \in Sheets(RefSheetRows) : ImportStart(rows, FALSE, TRUE)
    \/ ImportRow
    \/ ImportFinish
    \/ \E new_class \in NewClassNames : AddAssetClass(new_class)
    \/ \E new_type \in NewTypeNames : AddAssetType(5, new_type)

SpecRef == InitRef /\ [][NextRef]_vars


\* an import step that processes a row whose asset code is new
ImportsNewCode ==
    /\ imp.pc = "rows"
    /\ imp'.pc = "rows"
    /\ imp'.index = imp.index + 1
    /\ \A a \in asset : a.asset_code # imp.rows[imp.index + 1].asset_code

\* the reference resolver of the specification, on names: name resolves to the row
\* named hit; scope holds the names of the rows of the scope before the step, old tells
\* whether hit was among them, and added what the step inserted into the scope
ResolvesTo(scope, name, hit, old, added) ==
    IF \E n \in scope : Lower(n) = Lower(name)
    THEN old /\ Lower(hit) = Lower(name) /\ added = {}
    ELSE ~old /\ hit = name /\ added = {name}

\* C8, as stated: an import row resolves each reference name (asset class, asset type
\* within its class, design status, environmental status) to the existing row whose
\* name matches up to letter case, rows created by earlier rows of the batch included;
\* when none matches, one row with the name verbatim is inserted, and the asset or
\* project references the resolved row.
C8_AsStated ==
    [][ImportsNewCode =>
          LET row == imp.rows[imp.index + 1]
          IN  \E cls \in asset_class', ty \in asset_type_l4', ds \in design_status',
                 es \in env_status', a \in asset', p \in project' :
                 /\ a.asset_code = row.asset_code
                 /\ a.asset_type_id = ty.asset_type_id
                 /\ ty.asset_class_id = cls.asset_class_id
                 /\ p.asset_id = a.asset_id
                 /\ p.design_status_id = ds.design_status_id
                 /\ p.env_status_id = es.env_status_id
                 /\ ResolvesTo({c.class_name : c \in asset_class}, row.asset_class,
                               cls.class_name, cls \in asset_class,
                               {c.class_name : c \in asset_class' \ asset_class})
                 /\ ResolvesTo({t.type_name : t \in {t \in asset_type_l4 :
                                   t.asset_class_id = cls.asset_class_id}},
                               row.asset_type, ty.type_name, ty \in asset_type_l4,
                               {t.type_name : t \in asset_type_l4' \ asset_type_l4})
                 /\ ResolvesTo({d.status_name : d \in design_status}, row.design_status,
                               ds.status_name, ds \in design_status,
                               {d.status_name : d \in design_status' \ design_status})
                 /\ ResolvesTo({e.status_name : e \in env_status}, row.env_status,
                               es.status_name, es \in env_status,
                               {e.status_name : e \in env_status' \ env_status})]_vars

\* C8 fails: the first row of a batch created the class Tunnels, the second row names
\* Tunnels too and ends in an error instead of resolving to that class
C8_Witness ==
    /\ imp.pc = "rows"
    /\ imp.index = 2
    /\ imp.rows[1].asset_class = Tunnels
    /\ imp.rows[2].asset_class = Tunnels
    /\ imp.rows[1].asset_code # imp.rows[2].asset_code
    /\ imp.imported_count = 1
    /\ imp.errors = <<[row |-> 2, kind |-> "exception",
                       asset_code |-> imp.rows[2].asset_code]>>
    /\ \A a \in asset : a.asset_code # imp.rows[2].asset_code

\* C9, as stated: no two asset classes have names equal up to letter case, and no two
\* asset types of one asset class have names equal up to letter case.
C9_AsStated ==
    /\ \A c1, c2 \in asset_class :
          Lower(c1.class_name) = Lower(c2.class_name) => c1 = c2
    /\ \A t1, t2 \in asset_type_l4 :
          (/\ t1.asset_class_id = t2.asset_class_id
           /\ Lower(t1.type_name) = Lower(t2.type_name)) => t1 = t2

\* C9 fails: the add_asset_class form stored "channels" next to the seeded "Channels",
\* and the class Channels holds the types "General" and "general"
C9_Witness ==
    /\ \E c1, c2 \in asset_class :
          c1.class_name = Channels /\ c2.class_name = channels_lc
    /\ \E t1, t2 \in asset_type_l4 :
          /\ t1.asset_class_id = t2.asset_class_id
          /\ t1.type_name = General
          /\ t2.type_name = general_lc

----------------------------------------------------------------------------
(* SpecOverwrite: imports that overwrite, over projects that have a status *)
(* history, costs and risk assessments, or that were deleted.              *)

\* the sheet's score cells: within the sliders' ranges, below zero, and one that is no
\* number
OverwriteCells == {<<(<<0, 20, 0, 10, 10>>), {}>>, <<(<<-5, 0, 0, 0, 0>>), {}>>,
                   <<(<<0, 20, 0, 10, 10>>), {"whs_score"}>>}

OverwriteSheetRows ==
    {SheetRow(AllCodes[1], Channels, General, Approved, cell[1], cell[2]) :
        cell \in OverwriteCells}

OverwriteForms == {Form(AllCodes[1], 5, General, "Deck replacement", 1, <<8, 5, 7, 9, 6>>)}

NextOverwrite ==
    \/ \E f \in OverwriteForms : NewProject(f)
    \/ \E sel \in project : DeleteProject(sel)
    \/ \E p \in project : AddCostEntry(p.project_id, FinancialYears[1], 1000)
    \/ \E p \in project : AddRiskAssessment(p.project_id, 3, 4)
    \/ \E p \in project : UpdateStatus(p.project_id, ProjectStatusId("DESIGN"), today)
    \/ \E rows \in Sheets(OverwriteSheetRows), overwrite_existing \in BOOLEAN :
          ImportStart(rows, overwrite_existing, TRUE)
    \/ ImportRow
    \/ ImportFinish
    \/ NextDay

SpecOverwrite == InitRef /\ [][NextOverwrite]_vars

\* the step is one iteration of the import's loop
RowStep == imp.pc = "rows" /\ imp'.pc = "rows" /\ imp'.index = imp.index + 1

\* the sheet row the next iteration of the loop processes
RowAtHand == imp.rows[imp.index + 1]

\* the iteration at hand takes the overwrite branch
Overwrites ==
    /\ imp.overwrite_existing
    /\ \E a \in asset : a.asset_code = RowAtHand.asset_code

\* C11: an import row that overwrites an existing asset leaves the asset its id and
\* every project its id and its asset, and leaves the status history, the yearly costs
\* and the risk assessments as they were: no status history row is appended.
C11_OverwriteKeepsIdsAndHistory ==
    [][(RowStep /\ Overwrites) =>
          /\ {<<a.asset_id, a.asset_code>> : a \in asset'} =
             {<<a.asset_id, a.asset_code>> : a \in asset}
          /\ {<<p.project_id, p.asset_id>> : p \in project'} =
             {<<p.project_id, p.asset_id>> : p \in project}
          /\ project_status_history' = project_status_history
          /\ project_year_cost' = project_year_cost
          /\ risk_assessment' = risk_assessment]_vars

\* C11 happens: the first row of an overwriting import was imported over the asset
\* CD-2-001, whose project has two status history rows, a cost and a risk assessment,
\* and the asset's scores are now the row's.
C11_Witness ==
    /\ imp.pc = "rows"
    /\ imp.overwrite_existing
    /\ imp.index = 1
    /\ imp.imported_count = 1
    /\ imp.rows[1].asset_code = "CD-2-001"
    /\ \E a \in asset, p \in project :
          /\ a.asset_code = "CD-2-001"
          /\ p.asset_id = a.asset_id
          /\ p.project_scope = "Pump upgrade"
          /\ Cardinality({h \in project_status_history : h.project_id = p.project_id}) = 2
          /\ \E y \in project_year_cost : y.project_id = p.project_id
          /\ \E r \in risk_assessment : r.project_id = p.project_id
          /\ \E ps \in priority_score : /\ ps.asset_id = a.asset_id
                                        /\ ps.water_savings_score = 20

\* C12 as stated: after an import row that overwrites an existing asset was imported,
\* the asset has exactly one priority_score row and exactly one project row, and they
\* hold the row's values.
C12_AsStated ==
    [][(RowStep /\ Overwrites /\ imp'.imported_count = imp.imported_count + 1) =>
          \A a \in asset' :
             a.asset_code = RowAtHand.asset_code =>
                /\ \E ps \in priority_score' :
                      /\ ps.asset_id = a.asset_id
                      /\ ps.whs_score = RowAtHand.whs_score
                      /\ ps.water_savings_score = RowAtHand.water_score
                      /\ \A other \in priority_score' :
                            other.asset_id = a.asset_id => other = ps
                /\ \E p \in project' :
                      /\ p.asset_id = a.asset_id
                      /\ p.project_scope = RowAtHand.project_scope
                      /\ \A other \in project' :
                            other.asset_id = a.asset_id => other = p]_vars

\* C12 fails: an overwriting import counted its first row as imported, over the asset
\* CD-2-001, and no project row belongs to that asset
C12_Witness ==
    /\ imp.pc = "rows"
    /\ imp.overwrite_existing
    /\ imp.index = 1
    /\ imp.imported_count = 1
    /\ \E a \in asset : /\ a.asset_code = imp.rows[1].asset_code
                        /\ a.asset_id <= sqlite_sequence.asset
                        /\ \A p \in project : p.asset_id # a.asset_id
                        /\ \E ps \in priority_score : ps.asset_id = a.asset_id

----------------------------------------------------------------------------
(* Claims on created projects, under SpecOverwrite.                        *)

\* the step is a new_project_form submission that reported success
FormCreates ==
    /\ imp.pc = "idle" /\ imp'.pc = "idle"
    /\ report'.op = "new_project" /\ report'.ok
    /\ report.op = "new_project" => report.count # report'.count

\* the step is an import row of a code no asset holds, counted as imported
RowCreates ==
    /\ RowStep
    /\ \A a \in asset : a.asset_code # RowAtHand.asset_code
    /\ imp'.imported_count = imp.imported_count + 1

\* C13: creating a project for an asset code that no asset holds, by the form or by an
\* import row, adds exactly one asset, one priority_score of that asset, one project of
\* that asset and one status history row of that project, PLANNED and dated today, and
\* removes no row of these tables.
C13_CreateInsertsOneOfEach ==
    [][(FormCreates \/ RowCreates) =>
          /\ asset \subseteq asset'
          /\ priority_score \subseteq priority_score'
          /\ project \subseteq project'
          /\ project_status_history \subseteq project_status_history'
          /\ \E a \in asset', ps \in priority_score', p \in project',
                h \in project_status_history' :
                /\ asset' \ asset = {a}
                /\ priority_score' \ priority_score = {ps}
                /\ project' \ project = {p}
                /\ project_status_history' \ project_status_history = {h}
                /\ ps.asset_id = a.asset_id
                /\ p.asset_id = a.asset_id
                /\ h.project_id = p.project_id
                /\ SeedProjectStatuses[h.project_status_id] = "PLANNED"
                /\ h.status_date = today]_vars

\* C13 happens: on the second day an import row created the project of CD-2-001, whose
\* only status history row is dated that day
C13_Witness ==
    /\ today = 2
    /\ imp.pc = "rows"
    /\ imp.index = 1
    /\ imp.imported_count = 1
    /\ \E a \in asset, p \in project :
          /\ a.asset_code = "CD-2-001"
          /\ p.asset_id = a.asset_id
          /\ p.project_scope = "Pump upgrade"
          /\ {h.status_date : h \in {h \in project_status_history :
                                       h.project_id = p.project_id}} = {2}

\* C14 as stated: every component score stored in a priority_score row is
\* non-negative, whatever forms and imports wrote it.
C14_AsStated ==
    \A ps \in priority_score :
        /\ ps.whs_score >= 0
        /\ ps.water_savings_score >= 0
        /\ ps.customer_score >= 0
        /\ ps.maintenance_score >= 0
        /\ ps.financial_score >= 0

\* C14 fails: an import counted as imported a row whose whs_score cell is -5, and the
\* asset's priority_score row holds -5
C14_Witness ==
    /\ imp.pc = "rows"
    /\ imp.index = 1
    /\ imp.imported_count = 1
    /\ imp.errors = <<>>
    /\ imp.rows[1].whs_score = -5
    /\ \E a \in asset, ps \in priority_score :
          /\ a.asset_code = imp.rows[1].asset_code
          /\ ps.asset_id = a.asset_id
          /\ ps.whs_score = -5
          /\ ps.total_priority_score = FlatTotal(-5, 0, 0, 0, 0)

----------------------------------------------------------------------------
(* SpecBatch: imports of up to MaxBatch rows, some of which fail.          *)

BatchCells == {<<(<<0, 20, 0, 10, 10>>), {}>>, <<(<<8, 5, 7, 9, 6>>), {"water_score"}>>}

BatchSheetRows ==
    {SheetRow(code, Channels, General, Approved, cell[1], cell[2]) :
        code \in CodePool, cell \in BatchCells}

\* the spreadsheets of at most MaxBatch rows
BatchSheets == UNION {[1..n -> BatchSheetRows] : n \in 0..MaxBatch}

BatchForms == {Form(AllCodes[1], 5, General, "Deck replacement", 1, <<8, 5, 7, 9, 6>>)}

NextBatch ==
    \/ \E f \in BatchForms : NewProject(f)
    \/ \E rows \in BatchSheets, overwrite_existing \in BOOLEAN,
          has_required_columns \in BOOLEAN :
          ImportStart(rows, overwrite_existing, has_required_columns)
    \/ ImportRow
    \/ ImportFinish

SpecBatch == InitRef /\ [][NextBatch]_vars

\* row i of the running import was processed and no error carries its label
Succeeded(i) == i <= imp.index /\ \A k \in 1..Len(imp.errors) : imp.errors[k].row # i

\* the step returns from the import
Returns == imp.pc = "rows" /\ imp'.pc = "idle"

\* C15: the import takes its rows one by one in input order and returns only after the
\* last one, whatever failed before; when it returns, every row that succeeded has its
\* asset and the asset's priority_score in the store, the scores being those of the
\* last succeeded row of that code.
C15_RowsIndependent ==
    [][imp.pc = "rows" =>
          \/ /\ RowStep
             /\ imp'.rows = imp.rows
             /\ imp'.imported_count + Len(imp'.errors) = imp'.index
          \/ /\ Returns
             /\ imp.index = Len(imp.rows)
             /\ UNCHANGED tables
             /\ \A i \in 1..Len(imp.rows) :
                   Succeeded(i) =>
                      \E a \in asset, ps \in priority_score :
                         /\ a.asset_code = imp.rows[i].asset_code
                         /\ ps.asset_id = a.asset_id
                         /\ (\A j \in (i + 1)..Len(imp.rows) :
                                Succeeded(j) =>
                                   imp.rows[j].asset_code # imp.rows[i].asset_code)
                            => /\ ps.whs_score = imp.rows[i].whs_score
                               /\ ps.water_savings_score = imp.rows[i].water_score]_vars

\* C15 happens: of three rows the second failed in float(), the first and the third
\* were imported, and the import is about to return
C15_Witness ==
    /\ imp.pc = "rows"
    /\ Len(imp.rows) = 3
    /\ imp.index = 3
    /\ imp.imported_count = 2
    /\ Len(imp.errors) = 1
    /\ imp.errors[1].row = 2
    /\ imp.errors[1].kind = "exception"
    /\ \A i \in {1, 3} : \E a \in asset, ps \in priority_score :
          /\ a.asset_code = imp.rows[i].asset_code
          /\ ps.asset_id = a.asset_id

\* C16: an import that passed the column check returns the number of rows that
\* succeeded and one error per failed row, in input order, each carrying the 1-based
\* position and the asset code of its row; the count and the errors add up to the
\* number of rows.
C16_CountsAndLabels ==
    [][Returns =>
          /\ report'.op = "import"
          /\ report'.count = imp.imported_count
          /\ report'.errors = imp.errors
          /\ report'.count + Len(report'.errors) = Len(imp.rows)
          /\ \A k \in 1..Len(report'.errors) :
                LET e == report'.errors[k]
                IN  /\ e.row \in 1..Len(imp.rows)
                    /\ e.asset_code = imp.rows[e.row].asset_code
                    /\ k > 1 => report'.errors[k - 1].row < e.row
                    /\ e.kind = "exists" =>
                          /\ ~imp.overwrite_existing
                          /\ \E a \in asset : a.asset_code = e.asset_code]_vars

\* C16 happens: a batch of three rows without overwrite, whose second row names the
\* code of an existing asset, ends with two rows imported and the one error of row 2
C16_Witness ==
    /\ imp.pc = "rows"
    /\ ~imp.overwrite_existing
    /\ Len(imp.rows) = 3
    /\ imp.index = 3
    /\ imp.imported_count = 2
    /\ imp.errors = <<[row |-> 2, kind |-> "exists",
                       asset_code |-> imp.rows[2].asset_code]>>

----------------------------------------------------------------------------
(* SpecStatus: the status history of projects, as every handler that       *)
(* touches projects leaves it.                                             *)

StatusForms ==
    {Form(code, 5, General, "Deck replacement", 1, <<8, 5, 7, 9, 6>>) : code \in CodePool}

StatusSheetRows ==
    {SheetRow(AllCodes[1], Channels, General, Approved, <<0, 20, 0, 10, 10>>, {})}

\* the edit form of project sel, submitted with other scores
StatusEditForm(sel) ==
    Form((CHOOSE a \in asset : a.asset_id = sel.asset_id).asset_code, 5, General,
         sel.project_scope, sel.design_status_id, <<0, 20, 0, 10, 10>>)

\* the statuses the status form is submitted with
NewStatuses == {ProjectStatusId("PLANNED"), ProjectStatusId("DESIGN"),
                ProjectStatusId("COMPLETED")}

NextStatus ==
    \/ \E f \in StatusForms : NewProject(f)
    \/ \E sel \in project : EditProject(sel, StatusEditForm(sel))
    \/ \E sel \in project : DeleteProject(sel)
    \/ \E p \in project, new_status \in NewStatuses :
          UpdateStatus(p.project_id, new_status, today)
    \/ check_database_integrity
    \/ \E rows \in [1..1 -> StatusSheetRows] : ImportStart(rows, TRUE, TRUE)
    \/ ImportRow
    \/ ImportFinish

SpecStatus == InitRef /\ [][NextStatus]_vars

\* the step is a status_update_form submission
StatusAppended ==
    /\ report'.op = "update_status"
    /\ report.op = "update_status" => report.count # report'.count

\* the project_status_id of the rows of project_id dated latest
LatestStatuses(history, project_id) ==
    {h.project_status_id : h \in {h \in history :
        /\ h.project_id = project_id
        /\ h.status_date = Max({g.status_date : g \in {g \in history :
                                                        g.project_id = project_id}})}}

\* C17: the status form can be submitted for every listed project with every status,
\* whatever the project's statuses so far; a submission adds exactly one status history
\* row, the one submitted; and no step of any handler changes or removes a status
\* history row.
C17_HistoryAppendOnly ==
    /\ [](\A p \in project, new_status \in 1..Len(SeedProjectStatuses) :
            (/\ imp.pc = "idle"
             /\ \E a \in asset : a.asset_id = p.asset_id
             /\ sqlite_sequence.project_status_history < MaxAssets + MaxStatusUpdates)
            => ENABLED UpdateStatus(p.project_id, new_status, today))
    /\ [][/\ project_status_history \subseteq project_status_history'
          /\ StatusAppended =>
                \E h \in project_status_history' :
                   /\ project_status_history' \ project_status_history = {h}
                   /\ h.history_id = report'.count
                   /\ \A g \in project_status_history : g.history_id < h.history_id]_vars

\* C17 happens: a project whose history reads COMPLETED was given the status PLANNED
\* again, and its three history rows are all in the store
C17_Witness ==
    /\ report.op = "update_status"
    /\ \E p \in project, h1, h2, h3 \in project_status_history :
          /\ h1.project_id = p.project_id /\ h2.project_id = p.project_id
          /\ h3.project_id = p.project_id
          /\ h1.history_id < h2.history_id /\ h2.history_id < h3.history_id
          /\ SeedProjectStatuses[h2.project_status_id] = "COMPLETED"
          /\ SeedProjectStatuses[h3.project_status_id] = "PLANNED"
          /\ h3.history_id = report.count

----------------------------------------------------------------------------
(* SpecCurrent: the current status the Status Tracking page counts, over   *)
(* several days.                                                           *)

\* the dates the status form's date input is given
StatusDates == 1..MaxDay

NextCurrent ==
    \/ \E f \in StatusForms : NewProject(f)
    \/ \E sel \in project : DeleteProject(sel)
    \/ \E p \in project, new_status \in NewStatuses \ {ProjectStatusId("PLANNED")},
          status_date \in StatusDates : UpdateStatus(p.project_id, new_status, status_date)
    \/ ViewStatusTracking
    \/ NextDay

SpecCurrent == InitRef /\ [][NextCurrent]_vars

\* the page has just shown the status distribution of the status history as it is
Shown == report.op = "view_status_tracking"

\* C18: the status distribution takes, for every project with a status history, one row
\* dated the project's latest status_date, and counts the project under that row's
\* status; a status appended with a date earlier than that of an existing row of the
\* project leaves the statuses of the project's latest date as they were.
C18_CurrentIsLatestDate ==
    /\ [](Shown =>
            /\ \A h \in project_status_history :
                  \E g \in report.rn1 :
                     /\ g.project_id = h.project_id
                     /\ g.project_status_id \in
                           LatestStatuses(project_status_history, h.project_id)
                     /\ \A other \in report.rn1 : other.project_id = h.project_id => other = g
            /\ \A i \in 1..Len(SeedProjectStatuses) :
                  report.df_status[i] =
                     Cardinality({g.project_id : g \in {g \in report.rn1 :
                                                          g.project_status_id = i}}))
    /\ [][StatusAppended =>
            \A h \in project_status_history' \ project_status_history :
               (\E g \in project_status_history :
                   g.project_id = h.project_id /\ h.status_date < g.status_date)
               => LatestStatuses(project_status_history', h.project_id) =
                  LatestStatuses(project_status_history, h.project_id)]_vars

\* C18 happens: a project created on day 2 was given the status COMPLETED dated day 1,
\* and the page counts it under PLANNED
C18_Witness ==
    /\ Shown
    /\ \E h1, h2 \in project_status_history :
          /\ h1.project_id = h2.project_id
          /\ h1.history_id < h2.history_id
          /\ h1.status_date = 2 /\ h2.status_date = 1
          /\ SeedProjectStatuses[h1.project_status_id] = "PLANNED"
          /\ SeedProjectStatuses[h2.project_status_id] = "COMPLETED"
          /\ h1 \in report.rn1
          /\ report.df_status[ProjectStatusId("PLANNED")] >= 1
          /\ report.df_status[ProjectStatusId("COMPLETED")] = 0

\* C19 as stated: of the rows of a project that share its latest status_date, the
\* status distribution takes the one inserted last (the highest history_id).
C19_AsStated ==
    Shown =>
       \A g \in report.rn1 :
          \A h \in project_status_history :
             (h.project_id = g.project_id /\ h.status_date = g.status_date)
             => h.history_id <= g.history_id

\* C19 fails: a project was given the status DESIGN on the day it was created, and the
\* page counts it under PLANNED, the row inserted first
C19_Witness ==
    /\ Shown
    /\ \E h1, h2 \in project_status_history :
          /\ h1.project_id = h2.project_id
          /\ h1.history_id < h2.history_id
          /\ h1.status_date = h2.status_date
          /\ SeedProjectStatuses[h1.project_status_id] = "PLANNED"
          /\ SeedProjectStatuses[h2.project_status_id] = "DESIGN"
          /\ \A h \in project_status_history : h.project_id = h1.project_id => h \in {h1, h2}
          /\ h1 \in report.rn1
          /\ report.df_status[ProjectStatusId("DESIGN")] = 0

----------------------------------------------------------------------------
(* SpecClasses: the Asset Classes and Asset Types tabs, over assets that   *)
(* use the classes.                                                        *)

ClassForms ==
    {Form(code, 5, General, "Deck replacement", 1, <<8, 5, 7, 9, 6>>) : code \in CodePool}

\* the classes the delete form is submitted for
DeletedClassNames == {Channels, Meters}

NextClasses ==
    \/ \E f \in ClassForms : NewProject(f)
    \/ AddAssetClass(channels_lc)
    \/ EditAssetClass(Meters, Tunnels)
    \/ \E name \in DeletedClassNames : DeleteAssetClass(name)
    \/ AddAssetType(6, Siphon)
    \/ \E sel \in asset_type_l4 : EditAssetType(sel, 6, General)
    \/ \E sel \in asset_type_l4 : DeleteAssetType(sel)

SpecClasses == InitRef /\ [][NextClasses]_vars

\* some asset is of an asset type of the class c
ClassInUse(c) ==
    \E a \in asset, t \in asset_type_l4 :
        a.asset_type_id = t.asset_type_id /\ t.asset_class_id = c.asset_class_id

\* C20: submitting the delete form for an asset class that some asset uses through its
\* asset type reports an error and leaves every table as it was: the class, its asset
\* types and the assets stay.
C20_ClassInUseNotDeleted ==
    [][\A c \in asset_class :
          (ClassInUse(c) /\ DeleteAssetClass(c.class_name)) =>
             /\ ~report'.ok
             /\ report'.errors = <<"in use">>
             /\ UNCHANGED tables]_vars

\* C20 happens: the delete of a class that two assets use was refused, and the class is
\* in the store
C20_Witness ==
    /\ report.op = "delete_asset_class"
    /\ ~report.ok
    /\ report.count = 2
    /\ \E c \in asset_class :
          /\ c.class_name = Channels
          /\ Cardinality({a \in asset : \E t \in asset_type_l4 :
                            /\ a.asset_type_id = t.asset_type_id
                            /\ t.asset_class_id = c.asset_class_id}) = 2

----------------------------------------------------------------------------
(* Claims on failed import rows, under SpecBatch.                          *)

\* the step is an iteration of the import's loop that appended an error
RowFails == RowStep /\ Len(imp'.errors) = Len(imp.errors) + 1

\* C21 as stated: an import row that fails leaves every table as it was before the row
\* was processed, and when the import returns, every asset has a priority_score row and
\* a project row.
C21_AsStated ==
    [][/\ RowFails => UNCHANGED tables
       /\ Returns => \A a \in asset' :
                        /\ \E ps \in priority_score' : ps.asset_id = a.asset_id
                        /\ \E p \in project' : p.asset_id = a.asset_id]_vars

\* C21 fails: the only row of an import named a code no asset held and failed in
\* float(); the import is about to commit, and the asset of that code is in the store
\* without a priority_score and without a project
C21_Witness ==
    /\ imp.pc = "rows"
    /\ Len(imp.rows) = 1
    /\ imp.index = 1
    /\ imp.imported_count = 0
    /\ Len(imp.errors) = 1
    /\ imp.errors[1].kind = "exception"
    /\ imp.rows[1].non_numeric # {}
    /\ \E a \in asset :
          /\ a.asset_code = imp.rows[1].asset_code
          /\ \A ps \in priority_score : ps.asset_id # a.asset_id
          /\ \A p \in project : p.asset_id # a.asset_id

----------------------------------------------------------------------------
(* SpecTotals: one project whose scores are written by the forms and by an *)
(* overwriting import, between two changes of the criterion table.         *)

\* the criterion table once the first four seeded criteria were deleted
InitTotals == Init /\ criterion = {SeedCriteria[Len(SeedCriteria)]}

TotalsForms == {Form(AllCodes[1], 5, General, "Deck replacement", 1, <<8, 5, 7, 9, 6>>)}

TotalsEditForm(sel) ==
    Form((CHOOSE a \in asset : a.asset_id = sel.asset_id).asset_code, 5, General,
         sel.project_scope, sel.design_status_id, <<0, 20, 0, 10, 10>>)

TotalsSheetRows == {SheetRow(AllCodes[1], Channels, General, Approved, <<8, 5, 7, 9, 6>>, {})}

NextTotals ==
    \/ \E f \in TotalsForms : NewProject(f)
    \/ \E sel \in project : EditProject(sel, TotalsEditForm(sel))
    \/ \E rows \in Sheets(TotalsSheetRows) : ImportStart(rows, TRUE, TRUE)
    \/ ImportRow
    \/ ImportFinish
    \/ ViewPriorityScoring
    \/ \E name \in NewCriterionNames, w \in NewWeights :
          criterion_changes <= MaxCriterionChanges /\ AddCriterion(name, w, -1)
    \/ \E sel \in criterion, w \in NewWeights :
          criterion_changes <= MaxCriterionChanges /\ EditCriterion(sel, Empty, w, -1)
    \/ \E sel \in criterion :
          criterion_changes <= MaxCriterionChanges /\ DeleteCriterion(sel, -1)

SpecTotals == InitTotals /\ [][NextTotals]_vars

\* C22 as stated: every stored total is the sum of the row's five component scores, or
\* their weighted sum under the criterion table as it is now.
C22_AsStated ==
    \A ps \in priority_score :
        \/ ps.total_priority_score =
              FlatTotal(ps.whs_score, ps.water_savings_score, ps.customer_score,
                        ps.maintenance_score, ps.financial_score)
        \/ ps.total_priority_score = ExpectedTotal(criterion, ps)

\* C22 fails: the weight of Financial was changed to 25, which stored 6 * 0.25 = 1.5 for
\* the asset scored 8, 5, 7, 9, 6, and Financial was then deleted: the table is empty
\* and the asset still stores 1.5
C22_Witness ==
    /\ criterion = {}
    /\ criterion_changes = 2
    /\ report = Rep("delete_criterion", TRUE, 0, <<>>)
    /\ \E ps \in priority_score :
          /\ <<ps.whs_score, ps.water_savings_score, ps.customer_score,
               ps.maintenance_score, ps.financial_score>> = <<8, 5, 7, 9, 6>>
          /\ ps.total_priority_score * 10 = 15 * TotalUnit

----------------------------------------------------------------------------
(* The persisted risk ratings against the displayed matrix, under SpecRisk. *)

\* C23 as stated: every persisted risk rating is the cell of the displayed risk matrix
\* in the row of the assessment's consequence and the column of its likelihood.
C23_AsStated ==
    \A r \in risk_assessment :
        r.risk_rating = MatrixCell(r.consequence_id, r.likelihood_id)

\* C23 fails: a Catastrophic / Rare assessment (5 + 1) is stored as Moderate, and the
\* matrix shows High in that cell
C23_Witness ==
    \E r \in risk_assessment :
        /\ SeedConsequences[r.consequence_id].description = "Catastrophic"
        /\ SeedLikelihoods[r.likelihood_id].description = "Rare"
        /\ r.risk_rating = "Moderate"
        /\ MatrixCell(r.consequence_id, r.likelihood_id) = "High"

----------------------------------------------------------------------------
(* SpecDashboard: the figures of the Dashboard and of the status           *)
(* distribution, over projects that are given statuses and costs, and      *)
(* deleted.                                                                *)

DashboardStatuses == {ProjectStatusId("DESIGN"), ProjectStatusId("COMPLETED")}

NextDashboard ==
    \/ \E f \in StatusForms : NewProject(f)
    \/ \E sel \in project : DeleteProject(sel)
    \/ \E p \in project : AddCostEntry(p.project_id, FinancialYears[1], 1000)
    \/ \E p \in project, new_status \in DashboardStatuses :
          UpdateStatus(p.project_id, new_status, today)
    \/ check_database_integrity
    \/ ViewDashboard
    \/ ViewStatusTracking
    \/ NextDay

SpecDashboard == InitRef /\ [][NextDashboard]_vars

\* the Dashboard is what is displayed
DashboardShown == report.op = "view_dashboard"

\* the status history row of a project with the latest status_date and, among those,
\* the highest history_id
CurrentRows ==
    {h \in project_status_history :
        /\ \E p \in project : p.project_id = h.project_id
        /\ \A g \in project_status_history :
              g.project_id = h.project_id =>
                 \/ g.status_date < h.status_date
                 \/ g.status_date = h.status_date /\ g.history_id <= h.history_id}

\* C24 as stated: the Dashboard's active projects are the projects whose current
\* status is IN_PROGRESS or DESIGN, and its completed projects those whose current
\* status is COMPLETED.
C24_AsStated ==
    DashboardShown =>
       /\ report.active_projects =
             Cardinality({h \in CurrentRows :
                SeedProjectStatuses[h.project_status_id] \in {"IN_PROGRESS", "DESIGN"}})
       /\ report.completed_projects =
             Cardinality({h \in CurrentRows :
                SeedProjectStatuses[h.project_status_id] = "COMPLETED"})

\* C24 fails: the one project was given DESIGN on day 1 and COMPLETED on day 2, and the
\* Dashboard shows one active project and one completed project
C24_Witness ==
    /\ DashboardShown
    /\ Cardinality(project) = 1
    /\ \E p \in project, h1, h2 \in project_status_history :
          /\ h1.project_id = p.project_id /\ h2.project_id = p.project_id
          /\ SeedProjectStatuses[h1.project_status_id] = "DESIGN"
          /\ h1.status_date = 1
          /\ SeedProjectStatuses[h2.project_status_id] = "COMPLETED"
          /\ h2.status_date = 2
          /\ h2 \in CurrentRows
    /\ report.active_projects = 1
    /\ report.completed_projects = 1

\* the rows of a table that belong to a project that exists
OfProjects(rows) == {x \in rows : \E p \in project : p.project_id = x.project_id}

\* C26 as stated: the Dashboard's total budget and budget by financial year, and the
\* counts of the status distribution, are those of the rows of existing projects.
C26_AsStated ==
    /\ DashboardShown =>
          /\ report.total_budget = SumOfCosts(OfProjects(project_year_cost))
          /\ \A fy \in DOMAIN report.df_year :
                report.df_year[fy] =
                   SumOfCosts({y \in OfProjects(project_year_cost) :
                                 y.financial_year = fy})
    /\ Shown =>
          \A i \in 1..Len(SeedProjectStatuses) :
             report.df_status[i] = ProjectCount(OfProjects(report.rn1), i)

\* C26 fails: the only project was given a cost of 1000 and deleted, and the Dashboard
\* shows no project and a total budget of 1000
C26_Witness ==
    /\ DashboardShown
    /\ project = {}
    /\ report.total_projects = 0
    /\ report.total_budget = 1000
    /\ \E y \in project_year_cost : y.project_cost = 1000

----------------------------------------------------------------------------
(* Asset types and their classes, under SpecClasses.                       *)

\* C25 as stated: every asset type's asset_class_id is the id of an asset class in
\* the store.
C25_AsStated ==
    \A t \in asset_type_l4 : \E c \in asset_class : c.asset_class_id = t.asset_class_id

\* C25 fails: the type Siphon was added to the class Meters, which no asset uses, and
\* the class was deleted: the type is left with the id of a class that is gone
C25_Witness ==
    /\ report.op = "delete_asset_class"
    /\ report.ok
    /\ \A c \in asset_class : c.class_name # Meters
    /\ \E t \in asset_type_l4 :
          /\ t.type_name = Siphon
          /\ \A c \in asset_class : c.asset_class_id # t.asset_class_id
          /\ \A a \in asset : a.asset_type_id # t.asset_type_id

----------------------------------------------------------------------------
(* SpecScores: the priority_score rows and the ranks of projects written   *)
(* by the forms, by imports whose rows repeat a code or fail, by the       *)
(* recompute, by the ranking view and by the integrity check.              *)

ScoresCells == {<<(<<0, 20, 0, 10, 10>>), {}>>, <<(<<8, 5, 7, 9, 6>>), {"water_score"}>>}

ScoresSheetRows ==
    {SheetRow(AllCodes[1], Channels, General, Approved, cell[1], cell[2]) :
        cell \in ScoresCells}

NextScores ==
    \/ \E f \in StatusForms : NewProject(f)
    \/ \E sel \in project : EditProject(sel, TotalsEditForm(sel))
    \/ \E sel \in project : DeleteProject(sel)
    \/ \E rows \in Sheets(ScoresSheetRows), overwrite_existing \in BOOLEAN :
          ImportStart(rows, overwrite_existing, TRUE)
    \/ ImportRow
    \/ ImportFinish
    \/ \E sel \in criterion :
          criterion_changes < MaxCriterionChanges /\ DeleteCriterion(sel, -1)
    \/ ViewPriorityScoring
    \/ check_database_integrity

SpecScores == InitRef /\ [][NextScores]_vars

\* C27: no asset has two priority_score rows, and no two priority_score rows share
\* their score_id.
C27_OneScorePerAsset ==
    \A ps1, ps2 \in priority_score :
        (ps1.asset_id = ps2.asset_id \/ ps1.score_id = ps2.score_id) => ps1 = ps2

\* C27 happens: the first row of an overwriting import failed after it inserted the
\* asset, the second row, of the same code, took the overwrite branch and inserted the
\* asset's priority_score, and the asset has that one row
C27_Witness ==
    /\ imp.pc = "rows"
    /\ imp.overwrite_existing
    /\ Len(imp.rows) = 2
    /\ imp.index = 2
    /\ imp.rows[1].asset_code = imp.rows[2].asset_code
    /\ imp.imported_count = 1
    /\ Len(imp.errors) = 1
    /\ imp.errors[1].row = 1
    /\ \E a \in asset :
          /\ a.asset_code = imp.rows[2].asset_code
          /\ Cardinality({ps \in priority_score : ps.asset_id = a.asset_id}) = 1
          /\ \A p \in project : p.asset_id # a.asset_id

----------------------------------------------------------------------------
(* SpecSessions: one session creates and imports projects while a second   *)
(* session submits the delete_asset_class form.                            *)

NextSessions ==
    \/ \E f \in ClassForms : NewProject(f)
    \/ \E sel \in project : DeleteProject(sel)
    \/ \E rows \in [1..1 -> TotalsSheetRows] : ImportStart(rows, FALSE, TRUE)
    \/ ImportRow
    \/ ImportFinish
    \/ \E name \in DeletedClassNames : DeleteAssetClassCount(name)
    \/ DeleteAssetClassDelete

SpecSessions == InitRef /\ [][NextSessions]_vars

\* C28 as stated: whatever the two sessions' handlers did, every asset's type names an
\* asset class in the store, and a step that deletes an asset class deletes one that
\* no asset uses at that moment.
C28_AsStated ==
    /\ [](\A a \in asset : \A t \in asset_type_l4 :
             t.asset_type_id = a.asset_type_id =>
                \E c \in asset_class : c.asset_class_id = t.asset_class_id)
    /\ [][\A c \in asset_class \ asset_class' : ~ClassInUse(c)]_vars

\* C28 fails: the second session counted no asset of the class Channels, the first
\* session then created a project of that class, and the second session's DELETE
\* removed the class: the asset's type names a class that is gone
C28_Witness ==
    /\ report = Rep("delete_asset_class", TRUE, 0, <<>>)
    /\ deleting = NotDeleting
    /\ \A c \in asset_class : c.class_name # Channels
    /\ \E a \in asset, t \in asset_type_l4, p \in project :
          /\ t.asset_type_id = a.asset_type_id
          /\ p.asset_id = a.asset_id
          /\ t.asset_class_id = 5
          /\ \A c \in asset_class : c.asset_class_id # t.asset_class_id

\* the step gives a project that stays another rank, or a new project a rank
RanksChange ==
    \/ \E p \in project, q \in project' :
          q.project_id = p.project_id /\ q.priority_rank # p.priority_rank
    \/ \E q \in project' :
          /\ \A p \in project : p.project_id # q.project_id
          /\ q.priority_rank # NoRank

\* C29: only a view of the Priority Scoring page, or a criterion change whose recompute
\* finds a criterion, changes the rank of a project: a create, edit, delete or import
\* row leaves every other project its rank and gives a new project none.
C29_RanksFrame ==
    [][RanksChange =>
          /\ imp.pc = "idle"
          /\ \/ report'.op = "view_priority_scoring"
             \/ report'.op \in CriterionOps /\ report'.ok /\ criterion' # {}]_vars

\* C29 happens: of two ranked projects the one ranked 1 was deleted, and the project
\* that is left keeps the rank 2
C29_Witness ==
    /\ report.op = "delete_project"
    /\ Cardinality(project) = 1
    /\ \A p \in project : p.priority_rank = 2

\* the assets no project belongs to
Unprojected == {a \in asset : \A p \in project : p.asset_id # a.asset_id}

\* C30: deleting a project removes its project row and nothing else; an asset without a
\* project keeps its id, its code and a priority_score in every step; a new_project_form
\* submitted with the code of such an asset fails and changes no table; and an import
\* row with that code, without overwrite, is reported as existing and changes no table.
C30_CodeStaysReserved ==
    [][/\ \A sel \in project :
             DeleteProject(sel) =>
                /\ project' = project \ {sel}
                /\ UNCHANGED <<asset, priority_score, project_status_history,
                               project_year_cost, risk_assessment>>
       /\ \A a \in Unprojected :
             /\ \E b \in asset' : b.asset_id = a.asset_id /\ b.asset_code = a.asset_code
             /\ (\E ps \in priority_score : ps.asset_id = a.asset_id)
                   => \E ps \in priority_score' : ps.asset_id = a.asset_id
       /\ \A f \in StatusForms :
             (NewProject(f) /\ \E a \in Unprojected : a.asset_code = f.asset_code) =>
                /\ ~report'.ok
                /\ UNCHANGED tables
       /\ (/\ RowStep
           /\ ~imp.overwrite_existing
           /\ \E a \in Unprojected : a.asset_code = RowAtHand.asset_code) =>
             /\ UNCHANGED tables
             /\ imp'.imported_count = imp.imported_count
             /\ imp'.errors = imp.errors \o <<[row |-> imp.index + 1, kind |-> "exists",
                                               asset_code |-> RowAtHand.asset_code]>>]_vars

\* C30 happens: every project was deleted, the assets and their priority_score rows are
\* still there, and a new_project_form submitted with the code of one of them failed
C30_Witness ==
    /\ report = Rep("new_project", FALSE, 0, <<"exception">>)
    /\ project = {}
    /\ asset # {}
    /\ \A a \in asset : \E ps \in priority_score : ps.asset_id = a.asset_id
    /\ sqlite_sequence.project = Cardinality(asset)

=========================================================================
